---- MODULE Spec2Model ----
(***************************************************************************)
(* Request engine of the StockAlert SDK (src/src/resources/base.ts) as a   *)
(* state machine: every resource of a client is one BaseResource instance  *)
(* with its own pendingRequests and rateLimitReset maps; request() and the *)
(* retry loop of executeRequest() are the operations.  Time is the value   *)
(* of Date.now() in milliseconds.                                          *)
(***************************************************************************)
EXTENDS Integers, Sequences, FiniteSets, TLC

VARIABLES
    now,              \* Date.now(), ms
    maxRetries,       \* config.maxRetries of the clients
    calls,            \* one record per invocation of request(), in issue order
    pendingRequests,  \* engine -> (fingerprint -> index of the call whose promise is stored)
    rateLimitReset,   \* engine -> (origin -> stored reset time)
    last429,          \* engine -> the headers of the last 429 the engine processed (history)
    profile,          \* what a behaviour explores: "loop", "engine", "cooldown",
                      \* "clients", "facade", "backoff", "events", "batch", "iterate", "pool", or
                      \* "pure": the functions that
                      \* keep no state
    pure              \* profile "pure": a function, its arguments and, once applied, its result;
                      \* profile "facade": the last call that validation refused;
                      \* profile "events": the handlers of the client

vars == <<now, maxRetries, calls, pendingRequests, rateLimitReset, last429, profile, pure>>

----------------------------------------------------------------------------
(* Bounds of the model *)

MaxCalls == 2          \* invocations of request() in one behaviour of several calls
MaxTicks == 6          \* the clock stops advancing after MaxTicks ticks
MaxRetriesCfg == 2     \* config.maxRetries ranges over 0..MaxRetriesCfg in profile "loop"
CallsRetries == 1      \* config.maxRetries in a behaviour of several calls
MaxBatch == 2          \* items of one createBatch
MaxPoolBatch == 7      \* items of one createBatch whose groups are followed
MaxAlerts == 4         \* alerts the server holds while the pages are read
MaxIterators == 2      \* invocations of iterate in one behaviour
MaxBackoffRetries == 5 \* config.maxRetries in profile "backoff"
RetryAfterHeader == 5  \* the Retry-After header the server sends, in seconds

(* Program constants *)

DefaultCooldown == 60000   \* Date.now() + 60000
BackoffUnit == 1000        \* 1000 * Math.pow(2, attempt)
BackoffCap == 10000        \* Math.min(..., 10000)
MsPerSecond == 1000        \* / 1000 and * 1000
JitterTenths == 3          \* Math.random() * 0.3 * baseDelay

(* The clock advances in seconds; the configured timeout is a second and a   *)
(* half; the reset time the server announces is a second or a second and a   *)
(* half ahead.                                                               *)
TickStep == MsPerSecond
MaxTime == MaxTicks * TickStep
\* profile "backoff" runs until the capped delay has been slept
BackoffHorizon == 3 * BackoffCap
ConfigTimeout == (3 * MsPerSecond) \div 2
ResetOffsets == {MsPerSecond, (3 * MsPerSecond) \div 2}

----------------------------------------------------------------------------
(* The clients and their resources.  StockAlert's constructor gives every  *)
(* resource its own BaseResource instance built from the same config.      *)

Clients == {"c1", "c2"}
Resources == {"alerts", "webhooks"}
Engines == Clients \X Resources
ClientOf(e) == e[1]

Methods == {"GET", "POST"}
Paths == {"p1", "p2"}

\* url.origin: every client uses the same base URL, hence the same origin
OriginOf(e) == "o1"

\* buildUrl: the resolved URL is the base URL of the engine followed by the path
buildUrl(e, path) == <<OriginOf(e), path>>

\* requestKey = `${method}:${url}`
requestKey(method, url) == <<method, url>>

----------------------------------------------------------------------------
(* JavaScript values *)

Undef == [t |-> "undef", v |-> 0]
NaN == [t |-> "nan", v |-> 0]
Num(n) == [t |-> "num", v |-> n]

\* truthiness of undefined / NaN / a number
Truthy(x) == x.t = "num" /\ x.v # 0

\* Math.ceil(a / b) for b > 0
CeilDiv(a, b) == -((-a) \div b)

Min(a, b) == IF a < b THEN a ELSE b
Max(a, b) == IF a > b THEN a ELSE b

RECURSIVE Pow2(_)
Pow2(n) == IF n = 0 THEN 1 ELSE 2 * Pow2(n - 1)

EmptyMap == [x \in {} |-> 0]
MapSet(m, k, val) == [x \in (DOMAIN m) \cup {k} |-> IF x = k THEN val ELSE m[x]]
MapDelete(m, k) == [x \in (DOMAIN m) \ {k} |-> m[x]]

----------------------------------------------------------------------------
(* Errors (src/src/errors.ts).  RateLimitError and AuthenticationError     *)
(* extend ApiError and carry statusCode 429 and 401.                       *)

\* kind: the class; status: statusCode (0: none); msg: what tells the messages apart
JsError(kind, status, ra, msg) ==
    [kind |-> kind, status |-> status, retryAfter |-> ra, msg |-> msg]
NoError == JsError("none", 0, Undef, "")
ApiError(msg, status) == JsError("ApiError", status, Undef, msg)
RateLimitError(msg, ra) == JsError("RateLimitError", 429, ra, msg)
AuthenticationError == JsError("AuthenticationError", 401, Undef, "server")
NetworkError(msg) == JsError("NetworkError", 0, Undef, msg)
\* errors that are not the SDK's: fetch's TypeError (its message contains
\* 'fetch' or not), the AbortError of an aborted fetch, json()'s SyntaxError
TypeErrorFetch == JsError("TypeError", 0, Undef, "fetch")
TypeErrorOther == JsError("TypeError", 0, Undef, "other")
AbortError == JsError("AbortError", 0, Undef, "")
SyntaxError == JsError("SyntaxError", 0, Undef, "")
\* the reason a caller gives to controller.abort(reason): fetch rejects with it
AbortReason == JsError("Error", 0, Undef, "reason")

\* error instanceof ApiError
InstanceOfApiError(err) == err.kind \in {"ApiError", "RateLimitError", "AuthenticationError"}

(* Promise states *)
Pending == [st |-> "pending", err |-> NoError, value |-> <<>>]
Fulfilled(val) == [st |-> "fulfilled", err |-> NoError, value |-> val]
Rejected(err) == [st |-> "rejected", err |-> err, value |-> <<>>]

----------------------------------------------------------------------------
(* Rate-limit pre-check *)

\* this.rateLimitReset.get(origin): undefined when the origin has no entry
StoredReset(e, origin) ==
    IF origin \in DOMAIN rateLimitReset[e] THEN rateLimitReset[e][origin] ELSE Undef

\* checkRateLimit throws: resetTime && Date.now() < resetTime
checkRateLimit(resetTime, t) == Truthy(resetTime) /\ t < resetTime.v

\* (mutant) Math.floor in the place of Math.ceil
waitSecondsFloor(resetTime, t) == (resetTime.v - t) \div MsPerSecond

\* waitSeconds = Math.ceil((resetTime - Date.now()) / 1000)
waitSeconds(resetTime, t) == CeilDiv(resetTime.v - t, MsPerSecond)

----------------------------------------------------------------------------
(* request(): the three ways out of it *)

\* (mutant) no lookup in pendingRequests: every call that passes the check
\* starts executeRequest
RequestRouteNoLookup(e, method, url) ==
    IF checkRateLimit(StoredReset(e, url[1]), now) THEN "precheck" ELSE "own"

\* "precheck": checkRateLimit threw; "dedup": the stored promise is returned;
\* "own": executeRequest is started
RequestRoute(e, method, url) ==
    IF checkRateLimit(StoredReset(e, url[1]), now) THEN "precheck"
    ELSE IF method = "GET" /\ requestKey(method, url) \in DOMAIN pendingRequests[e]
         THEN "dedup"
         ELSE "own"

\* calls of the engine with this fingerprint whose promise has not settled (history)
OutstandingTwin(e, method, path) ==
    {j \in 1..Len(calls) :
        /\ calls[j].eng = e /\ calls[j].method = method /\ calls[j].path = path
        /\ calls[j].route = "own" /\ calls[j].outcome.st = "pending"}

NoAnswer == [status |-> 0, json |-> FALSE, parses |-> FALSE]

NewCall(e, method, path, sig, route) ==
    LET url == buildUrl(e, path)
        key == requestKey(method, url)
        twins == OutstandingTwin(e, method, path)
    IN  [ eng |-> e, method |-> method, path |-> path, hasSignal |-> sig,
          route |-> route,
          share |-> IF route = "dedup" THEN pendingRequests[e][key] ELSE 0,
          pc |-> IF route = "own" THEN "fetching" ELSE "done",
          attempt |-> 0,
          netAttempts |-> IF route = "own" THEN 1 ELSE 0,
          sleeps |-> 0,
          timer |-> route = "own",      \* setTimeout(() => controller.abort(), timeout)
          timerAt |-> IF route = "own" THEN now + ConfigTimeout ELSE 0,
          wakeAt |-> 0,
          lastError |-> NoError,
          outcome |-> IF route = "precheck"
                      THEN Rejected(RateLimitError("in effect",
                               Num(waitSeconds(StoredReset(e, url[1]), now))))
                      ELSE Pending,
          transportFails |-> 0,         \* attempts that failed in the transport (history)
          answered |-> NoAnswer,        \* the answer the last step processed (history)
          aborted |-> NoError,          \* what options.signal was aborted with, if it was
          retries |-> Undef,            \* options.retries
          twin |-> IF method = "GET" /\ twins # {} THEN CHOOSE j \in twins : TRUE ELSE 0 ]

\* Profile "loop" follows one call through the retry loop under every answer
\* of the server.  The others interleave several calls (a caller-supplied
\* signal only on a call that is served from the registry, where it changes
\* nothing) under the answers of CoreResponses: "engine" calls
\* of every method and path on one engine, "cooldown" GETs of one path on one
\* engine, "clients" GETs of one path on the engines of the two clients.
\* The engines and the paths are interchangeable, so the first call of a
\* behaviour goes to alerts of client c1 and to path p1.
FirstEngine == <<"c1", "alerts">>
FirstPath == "p1"

\* options.retries of a call: left out, or (profile "backoff") a number
RetriesOptions == IF profile = "backoff" THEN {Undef, Num(CallsRetries)} ELSE {Undef}

\* maxRetries = options.retries ?? this.config.maxRetries
maxRetriesOf(c) == IF c.retries.t = "undef" THEN maxRetries ELSE c.retries.v

CallLimit == IF profile \in {"loop", "facade", "backoff", "events"} THEN 1 ELSE MaxCalls

\* (mutant) the promise of every call is stored, whatever its method
requestStoresAll(e, method, path, sig) ==
    /\ Len(calls) < CallLimit
    /\ (profile # "loop" /\ sig) => RequestRoute(e, method, buildUrl(e, path)) = "dedup"
    /\ Len(calls) = 0 => e = FirstEngine /\ (path = FirstPath \/ profile = "facade")
    /\ profile # "clients" => e = FirstEngine
    /\ profile \in {"cooldown", "clients"} => method = "GET" /\ path = FirstPath
    /\ LET route == RequestRoute(e, method, buildUrl(e, path))
           key == requestKey(method, buildUrl(e, path))
           id == Len(calls) + 1
       IN  /\ \E r \in RetriesOptions :
                 calls' = Append(calls, [NewCall(e, method, path, sig, route)
                                            EXCEPT !.retries = r])
           /\ pendingRequests' =
                IF route = "own"
                THEN [pendingRequests EXCEPT ![e] = MapSet(@, key, id)]
                ELSE pendingRequests
    /\ UNCHANGED <<now, maxRetries, rateLimitReset, last429, profile, pure>>

request(e, method, path, sig) ==
    /\ Len(calls) < CallLimit
    /\ (profile # "loop" /\ sig) => RequestRoute(e, method, buildUrl(e, path)) = "dedup"
    /\ Len(calls) = 0 => e = FirstEngine /\ (path = FirstPath \/ profile = "facade")
    /\ profile # "clients" => e = FirstEngine
    /\ profile \in {"cooldown", "clients"} => method = "GET" /\ path = FirstPath
    /\ LET route == RequestRoute(e, method, buildUrl(e, path))
           key == requestKey(method, buildUrl(e, path))
           id == Len(calls) + 1
       IN  /\ \E r \in RetriesOptions :
                 calls' = Append(calls, [NewCall(e, method, path, sig, route)
                                            EXCEPT !.retries = r])
           /\ pendingRequests' =
                IF route = "own" /\ method = "GET"
                THEN [pendingRequests EXCEPT ![e] = MapSet(@, key, id)]
                ELSE pendingRequests
    /\ UNCHANGED <<now, maxRetries, rateLimitReset, last429, profile, pure>>

\* the settled state of the promise a caller of request() holds
Outcome(i) ==
    IF calls[i].route = "dedup" THEN calls[calls[i].share].outcome ELSE calls[i].outcome

----------------------------------------------------------------------------
(* executeRequest(): one attempt *)

Statuses == {200, 401, 404, 429, 500}
Bodies == {"a", "b"}

\* What the server can answer at time t.  json: the content type is JSON;
\* parses: response.json() succeeds; envOk: success is true and data is present;
\* meta: the envelope has a meta object; reset: the X-RateLimit-Reset header;
\* retryAfter: the Retry-After header.
Responses(t) ==
    LET plain(st, js, pa) ==
            [status |-> st, json |-> js, parses |-> pa, envOk |-> FALSE,
             meta |-> FALSE, reset |-> Undef, retryAfter |-> Undef, body |-> "a"]
    IN  {plain(st, FALSE, FALSE) : st \in Statuses}
        \cup {plain(st, TRUE, FALSE) : st \in Statuses}
        \cup {plain(st, TRUE, TRUE) : st \in Statuses \ {429}}
        \cup {[plain(200, TRUE, TRUE) EXCEPT !.envOk = TRUE, !.meta = m, !.body = b] :
                 m \in BOOLEAN, b \in Bodies}
        \cup {[plain(429, TRUE, TRUE) EXCEPT !.reset = r, !.retryAfter = ra] :
                 r \in {Undef, NaN} \cup {Num(t + d) : d \in ResetOffsets},
                 ra \in {Undef, Num(RetryAfterHeader)}}

\* the answers explored when several calls interleave: a success, a 500, and
\* a 429 with either its X-RateLimit-Reset or its Retry-After header
CoreResponses(t) ==
    {r \in Responses(t) : /\ r.json /\ r.parses /\ r.status \in {200, 429, 500}
                          /\ r.reset.t # "nan" /\ ~r.meta
                          /\ r.status = 200 => r.envOk
                          /\ r.status = 429 => (r.reset.t = "undef") # (r.retryAfter.t = "undef")}

\* the 429 branch is reached: the body was parsed and the status is 429
Records429(resp) == resp.json /\ resp.parses /\ resp.status = 429

\* resetTime = rateLimitReset ? parseInt(rateLimitReset, 10) : Date.now() + 60000
resetTimeOf(resp, t) ==
    IF resp.reset.t = "undef" THEN Num(t + DefaultCooldown) ELSE resp.reset

\* retryAfter = Math.ceil((resetTime - Date.now()) / 1000)
retryAfterOf(resetTime, t) ==
    IF resetTime.t = "num" THEN Num(CeilDiv(resetTime.v - t, MsPerSecond)) ELSE NaN

Throw(err) == [ok |-> FALSE, err |-> err, value |-> <<>>]
Return(val) == [ok |-> TRUE, err |-> NoError, value |-> val]

\* (mutant) the data is returned alone, whether the envelope has meta or not
AttemptResultDataAlone(resp, t) ==
    IF ~resp.json THEN Throw(ApiError("content type", resp.status))
    ELSE IF ~resp.parses THEN Throw(SyntaxError)
    ELSE IF resp.status = 429
         THEN Throw(RateLimitError("server", retryAfterOf(resetTimeOf(resp, t), t)))
    ELSE IF ~(resp.status >= 200 /\ resp.status <= 299)
         THEN IF resp.status = 401 THEN Throw(AuthenticationError)
                                   ELSE Throw(ApiError("server", resp.status))
    ELSE IF ~resp.envOk THEN Throw(ApiError("server", resp.status))
    ELSE Return(<<"data", resp.body>>)

\* the body of the try block, from the response to the return or the throw.
\* An ApiError with msg "server" is built from the envelope: its message is
\* taken from data.error and its response is the envelope.
AttemptResult(resp, t) ==
    IF ~resp.json THEN Throw(ApiError("content type", resp.status))
    ELSE IF ~resp.parses THEN Throw(SyntaxError)
    ELSE IF resp.status = 429
         THEN Throw(RateLimitError("server", retryAfterOf(resetTimeOf(resp, t), t)))
    ELSE IF ~(resp.status >= 200 /\ resp.status <= 299)
         THEN IF resp.status = 401 THEN Throw(AuthenticationError)
                                   ELSE Throw(ApiError("server", resp.status))
    ELSE IF ~resp.envOk THEN Throw(ApiError("server", resp.status))
    ELSE IF resp.meta THEN Return(<<"data+meta", resp.body>>)
    ELSE Return(<<"data", resp.body>>)

\* (mutant) every ApiError other than a rate limit is rethrown at once
CatchDecisionApiErrorsFinal(err, attempt, maxR) ==
    IF err.kind = "AbortError" THEN [do |-> "throw", err |-> NetworkError("timeout")]
    ELSE IF err.kind = "TypeError" /\ err.msg = "fetch"
         THEN [do |-> "throw", err |-> NetworkError("failed")]
    ELSE IF InstanceOfApiError(err) /\ err.status # 429
         THEN [do |-> "throw", err |-> err]
    ELSE IF attempt < maxR THEN [do |-> "sleep", err |-> err]
    ELSE [do |-> "exhausted", err |-> err]

\* the catch block: rethrow at once, or keep the error and go on with the loop
CatchDecision(err, attempt, maxR) ==
    IF err.kind = "AbortError" THEN [do |-> "throw", err |-> NetworkError("timeout")]
    ELSE IF err.kind = "TypeError" /\ err.msg = "fetch"
         THEN [do |-> "throw", err |-> NetworkError("failed")]
    ELSE IF /\ InstanceOfApiError(err)
            /\ err.status >= 400 /\ err.status < 500 /\ err.status # 429
         THEN [do |-> "throw", err |-> err]
    ELSE IF attempt < maxR THEN [do |-> "sleep", err |-> err]
    ELSE [do |-> "exhausted", err |-> err]

\* (mutant) the delay doubles without a cap
baseDelayUncapped(attempt) == BackoffUnit * Pow2(attempt)

\* baseDelay = Math.min(1000 * Math.pow(2, attempt), 10000)
baseDelay(attempt) == Min(BackoffUnit * Pow2(attempt), BackoffCap)

\* the values Math.random() * 0.3 * baseDelay takes in the model: the least
\* and the greatest whole number of milliseconds
Jitters(attempt) == {0, (JitterTenths * baseDelay(attempt)) \div 10 - 1}

\* (mutant) the backoff delay, whatever the error
sleepMsBackoff(err, attempt, jitter) == baseDelay(attempt) + jitter

\* the argument of sleep(): retryAfter * 1000 for a rate limit with a truthy
\* retryAfter, else the backoff delay
sleepMs(err, attempt, jitter) ==
    IF err.kind = "RateLimitError" /\ Truthy(err.retryAfter)
    THEN err.retryAfter.v * MsPerSecond
    ELSE baseDelay(attempt) + jitter

\* what the environment draws in the behaviour's profile: the answers of the
\* server, the jitter, the TypeError of a failed transport, the reason of an abort
Answers(t) ==
    CASE profile = "loop" -> Responses(t)
      [] profile = "facade" ->
            CoreResponses(t) \cup {r \in Responses(t) : r.status = 200 /\ r.envOk /\ r.meta}
      [] profile = "backoff" ->
            CoreResponses(t) \cup {r \in Responses(t) : /\ r.json /\ r.parses /\ r.status = 429
                                                        /\ r.reset.t = "nan"
                                                        /\ r.retryAfter.t = "undef"}
      [] OTHER -> CoreResponses(t)
JitterDraws(attempt) == IF profile \in {"loop", "backoff"} THEN Jitters(attempt) ELSE {0}
TransportErrors == IF profile \in {"loop", "backoff"} THEN {TypeErrorFetch, TypeErrorOther}
                                                     ELSE {TypeErrorFetch}
AbortReasons == IF profile = "loop" THEN {AbortError, AbortReason} ELSE {AbortError}

\* the promise of executeRequest settles; a GET's finally callback is still to run
Settle(c, outcome) ==
    [c EXCEPT !.outcome = outcome, !.timer = FALSE, !.timerAt = 0, !.wakeAt = 0,
              !.lastError = NoError,
              !.pc = IF c.method = "GET" THEN "settled" ELSE "done"]

\* (mutant) lastError is assigned only while it is null, lastError ??= error:
\* the loop ends with the error of the first attempt
AfterErrorFirst(c, err, jitter) ==
    LET d == CatchDecision(err, c.attempt, maxRetriesOf(c))
    IN  IF d.do = "throw" THEN Settle(c, Rejected(d.err))
        ELSE IF d.do = "exhausted"
             THEN Settle(c, Rejected(IF c.lastError = NoError THEN err ELSE c.lastError))
        ELSE [c EXCEPT !.lastError = IF c.lastError = NoError THEN err ELSE c.lastError,
                       !.timer = FALSE, !.timerAt = 0,
                       !.pc = "sleeping",
                       !.sleeps = @ + 1,
                       !.wakeAt = now + Max(0, sleepMs(err, c.attempt, jitter))]

\* the catch block applied to call c for the error err, with the jitter drawn
AfterError(c, err, jitter) ==
    LET d == CatchDecision(err, c.attempt, maxRetriesOf(c))
    IN  IF d.do = "throw" THEN Settle(c, Rejected(d.err))
        ELSE IF d.do = "exhausted" THEN Settle(c, Rejected(err))
        ELSE [c EXCEPT !.lastError = err, !.timer = FALSE, !.timerAt = 0,
                       !.pc = "sleeping",
                       !.sleeps = @ + 1,
                       !.wakeAt = now + Max(0, sleepMs(err, c.attempt, jitter))]

\* fetch resolves with a response and the try block runs to its end
Respond(i, resp, jitter) ==
    /\ calls[i].pc = "fetching"
    /\ LET res == AttemptResult(resp, now)
           c == [calls[i] EXCEPT !.answered =
                    [status |-> resp.status, json |-> resp.json, parses |-> resp.parses]]
       IN  /\ calls' = [calls EXCEPT ![i] =
                 IF res.ok THEN Settle(c, Fulfilled(res.value))
                           ELSE AfterError(c, res.err, jitter)]
           /\ IF Records429(resp)
              THEN /\ rateLimitReset' = [rateLimitReset EXCEPT ![c.eng] =
                          MapSet(@, buildUrl(c.eng, c.path)[1], resetTimeOf(resp, now))]
                   /\ last429' = [last429 EXCEPT ![c.eng] =
                          [seen |-> TRUE, reset |-> resp.reset.t,
                           retryAfter |-> resp.retryAfter]]
              ELSE UNCHANGED <<rateLimitReset, last429>>
    /\ UNCHANGED <<now, maxRetries, pendingRequests, profile, pure>>

\* fetch rejects with a TypeError: the transport failed.  Whether the message
\* contains 'fetch' depends on the runtime ("fetch failed", "Failed to fetch",
\* "Load failed").
TransportFailure(i, err, jitter) ==
    /\ calls[i].pc = "fetching"
    /\ calls' = [calls EXCEPT ![i] =
          AfterError([calls[i] EXCEPT !.transportFails = @ + 1, !.answered = NoAnswer],
                     err, jitter)]
    /\ UNCHANGED <<now, maxRetries, pendingRequests, rateLimitReset, last429, profile, pure>>

\* the timer set at the start of executeRequest fires: controller.abort().
\* fetch listens to controller.signal only when the caller gave no signal.
TimerFires(i) ==
    /\ calls[i].timer
    /\ now >= calls[i].timerAt
    /\ calls' = [calls EXCEPT ![i] =
          IF calls[i].pc = "fetching" /\ ~calls[i].hasSignal
          THEN AfterError([calls[i] EXCEPT !.answered = NoAnswer], AbortError, 0)
          ELSE [calls[i] EXCEPT !.timer = FALSE, !.timerAt = 0]]
    /\ UNCHANGED <<now, maxRetries, pendingRequests, rateLimitReset, last429, profile, pure>>

\* sleep() is over: the loop goes on with the next attempt and calls fetch.
\* Called with a signal that is aborted, fetch sends nothing and rejects with
\* the reason of the abort.
Wake(i) ==
    /\ calls[i].pc = "sleeping"
    /\ now >= calls[i].wakeAt
    /\ LET c == [calls[i] EXCEPT !.pc = "fetching", !.attempt = @ + 1,
                                 !.wakeAt = 0, !.answered = NoAnswer]
       IN  IF c.hasSignal /\ c.aborted # NoError
           THEN \E j \in JitterDraws(c.attempt) :
                   calls' = [calls EXCEPT ![i] = AfterError(c, c.aborted, j)]
           ELSE calls' = [calls EXCEPT ![i] = [c EXCEPT !.netAttempts = @ + 1]]
    /\ UNCHANGED <<now, maxRetries, pendingRequests, rateLimitReset, last429, profile, pure>>

\* the caller aborts the signal it passed in options.signal.  An attempt in
\* flight is bound to that signal (fetchOptions.signal): fetch rejects with
\* the reason.  sleep() does not listen to it, and a call served from the
\* registry has dropped its options.
Abort(i, reason, jitter) ==
    /\ calls[i].hasSignal
    /\ calls[i].aborted = NoError
    /\ Outcome(i).st = "pending"
    /\ LET c == [calls[i] EXCEPT !.aborted = reason]
       IN  calls' = [calls EXCEPT ![i] =
              IF c.route = "own" /\ c.pc = "fetching"
              THEN AfterError([c EXCEPT !.answered = NoAnswer], reason, jitter)
              ELSE c]
    /\ UNCHANGED <<now, maxRetries, pendingRequests, rateLimitReset, last429, profile, pure>>

\* (mutant) the entry is deleted in then(), after a success only
CleanupOnFulfil(i) ==
    /\ calls[i].pc = "settled"
    /\ LET c == calls[i]
           key == requestKey(c.method, buildUrl(c.eng, c.path))
       IN  pendingRequests' =
              IF c.outcome.st = "fulfilled"
              THEN [pendingRequests EXCEPT ![c.eng] = MapDelete(@, key)]
              ELSE pendingRequests
    /\ calls' = [calls EXCEPT ![i].pc = "done"]
    /\ UNCHANGED <<now, maxRetries, rateLimitReset, last429, profile, pure>>

\* requestPromise.finally(() => this.pendingRequests.delete(requestKey))
Cleanup(i) ==
    /\ calls[i].pc = "settled"
    /\ LET c == calls[i]
           key == requestKey(c.method, buildUrl(c.eng, c.path))
       IN  pendingRequests' = [pendingRequests EXCEPT ![c.eng] = MapDelete(@, key)]
    /\ calls' = [calls EXCEPT ![i].pc = "done"]
    /\ UNCHANGED <<now, maxRetries, rateLimitReset, last429, profile, pure>>

\* a timer is armed, a call sleeps, or a stored reset time lies ahead of a
\* call still to come
TimeMatters ==
    \/ \E i \in 1..Len(calls) : calls[i].timer \/ calls[i].pc = "sleeping"
    \/ /\ Len(calls) < CallLimit
       /\ \E e \in Engines : checkRateLimit(StoredReset(e, OriginOf(e)), now)

\* the clock advances; a timer that is due fires before it does.  While
\* nothing waits for the clock its value makes no difference, and it stands.
Tick ==
    /\ now + TickStep <= (IF profile = "backoff" THEN BackoffHorizon ELSE MaxTime)
    /\ TimeMatters
    /\ \A i \in 1..Len(calls) :
          /\ calls[i].timer => now < calls[i].timerAt
          /\ calls[i].pc = "sleeping" => now < calls[i].wakeAt
    /\ now' = now + TickStep
    /\ UNCHANGED <<maxRetries, calls, pendingRequests, rateLimitReset, last429, profile, pure>>

----------------------------------------------------------------------------
No429 == [seen |-> FALSE, reset |-> "undef", retryAfter |-> Undef]

\* no function is under study
Idle == [fn |-> "none"]

Init ==
    /\ now = 0
    /\ profile \in {"loop", "engine", "cooldown", "clients"}
    /\ maxRetries \in 0..MaxRetriesCfg
    /\ profile # "loop" => maxRetries = CallsRetries
    /\ calls = <<>>
    /\ pendingRequests = [e \in Engines |-> EmptyMap]
    /\ rateLimitReset = [e \in Engines |-> EmptyMap]
    /\ last429 = [e \in Engines |-> No429]
    /\ pure = Idle

Next ==
    \/ \E e \in Engines, m \in Methods, p \in Paths, sig \in BOOLEAN : request(e, m, p, sig)
    \/ \E i \in 1..Len(calls) : \E resp \in Answers(now), j \in JitterDraws(calls[i].attempt) :
          Respond(i, resp, j)
    \/ \E i \in 1..Len(calls) :
          \E err \in TransportErrors, j \in JitterDraws(calls[i].attempt) :
             TransportFailure(i, err, j)
    \/ \E i \in 1..Len(calls) : TimerFires(i)
    \/ \E i \in 1..Len(calls) : Wake(i)
    \/ \E i \in 1..Len(calls) : Cleanup(i)
    \/ \E i \in 1..Len(calls) :
          \E reason \in AbortReasons, j \in JitterDraws(calls[i].attempt) :
             Abort(i, reason, j)
    \/ Tick

Spec == Init /\ [][Next]_vars

InitLoop == Init /\ profile = "loop"
InitEngine == Init /\ profile = "engine"
InitCooldown == Init /\ profile = "cooldown"
InitClients == Init /\ profile = "clients"
SpecLoop == InitLoop /\ [][Next]_vars
SpecEngine == InitEngine /\ [][Next]_vars
SpecCooldown == InitCooldown /\ [][Next]_vars
SpecClients == InitClients /\ [][Next]_vars

\* Profile "backoff" follows one call without a signal through as many
\* retries as it takes to reach the cap of the delay.
InitBackoff ==
    /\ now = 0
    /\ profile = "backoff"
    /\ maxRetries \in {0, MaxBackoffRetries}
    /\ calls = <<>>
    /\ pendingRequests = [e \in Engines |-> EmptyMap]
    /\ rateLimitReset = [e \in Engines |-> EmptyMap]
    /\ last429 = [e \in Engines |-> No429]
    /\ pure = Idle

NextBackoff ==
    \/ \E m \in Methods : request(FirstEngine, m, FirstPath, FALSE)
    \/ \E i \in 1..Len(calls) : \E resp \in Answers(now), j \in JitterDraws(calls[i].attempt) :
          Respond(i, resp, j)
    \/ \E i \in 1..Len(calls) :
          \E err \in TransportErrors, j \in JitterDraws(calls[i].attempt) :
             TransportFailure(i, err, j)
    \/ \E i \in 1..Len(calls) : TimerFires(i)
    \/ \E i \in 1..Len(calls) : Wake(i)
    \/ \E i \in 1..Len(calls) : Cleanup(i)
    \/ Tick

SpecBackoff == InitBackoff /\ [][NextBackoff]_vars

----------------------------------------------------------------------------
(* The functions that keep no state.  A behaviour of profile "pure" starts  *)
(* from a function and its arguments and applies the function once.         *)

NotApplied == [t |-> "none"]
Returned(v) == [t |-> "return", v |-> v]
Thrown(kind) == [t |-> "throw", v |-> kind]

\* JavaScript strings that may be undefined
UndefStr == [t |-> "undef", v |-> ""]
Str(x) == [t |-> "str", v |-> x]
StrTruthy(x) == x.t = "str" /\ x.v # ""

(* executeRequest: the headers of a call *)

\* the headers executeRequest sets before it spreads options.headers
DefaultHeaders ==
    [n \in {"Content-Type", "User-Agent", "Accept", "Accept-Encoding"} |->
        IF n = "User-Agent" THEN "sdk"
        ELSE IF n = "Accept-Encoding" THEN "gzip, deflate" ELSE "application/json"]

\* { ...a, ...b }: the keys of b replace those of a with the very same name
Spread(a, b) == [n \in (DOMAIN a) \cup (DOMAIN b) |-> IF n \in DOMAIN b THEN b[n] ELSE a[n]]

\* the headers object handed to fetch
buildHeaders(cfg, optHeaders) ==
    LET headers == Spread(DefaultHeaders, optHeaders)
    IN  IF "Authorization" \in DOMAIN headers THEN headers
        ELSE IF StrTruthy(cfg.bearerToken)
             THEN Spread(headers, [n \in {"Authorization"} |-> <<"Bearer", cfg.bearerToken.v>>])
             ELSE Spread(headers, [n \in {"X-API-Key"} |-> cfg.apiKey])

\* fetch puts the object into a Headers list, where names differ by more than
\* case: the name of a header as HTTP sees it
Lower(n) ==
    CASE n \in {"Authorization", "authorization"} -> "authorization"
      [] n \in {"X-API-Key", "x-api-key"} -> "x-api-key"
      [] OTHER -> n

\* the entries of the object that make up the header of that name on the wire
Sent(headers, lname) == {<<n, headers[n]>> : n \in {m \in DOMAIN headers : Lower(m) = lname}}

\* the header names a caller passes in options.headers, and the values
CallerHeaderNames == {"Authorization", "authorization", "Accept"}
CallerHeaderValues == {"Basic u", "text/plain"}
CallerHeaders ==
    UNION {[names -> CallerHeaderValues] : names \in SUBSET CallerHeaderNames}

HeaderConfigs ==
    [apiKey : {"sk_0123456789"}, bearerToken : {UndefStr, Str(""), Str("tok")}]

HeaderInputs ==
    {[fn |-> "headers", cfg |-> c, headers |-> h, out |-> NotApplied] :
        c \in HeaderConfigs, h \in CallerHeaders}

ApplyBuildHeaders ==
    /\ pure.fn = "headers" /\ pure.out = NotApplied
    /\ pure' = [pure EXCEPT !.out = Returned(buildHeaders(pure.cfg, pure.headers))]
    /\ UNCHANGED <<now, maxRetries, calls, pendingRequests, rateLimitReset, last429, profile>>

(* StockAlert.constructor *)

\* a string as the sequence of its characters, or undefined
NoKey == [t |-> "undef", v |-> <<>>]
Key(chars) == [t |-> "str", v |-> chars]

\* s.startsWith(prefix), s.includes(part)
startsWith(s, prefix) == Len(s) >= Len(prefix) /\ SubSeq(s, 1, Len(prefix)) = prefix
includes(s, part) ==
    \E i \in 1..(Len(s) - Len(part) + 1) : SubSeq(s, i, i + Len(part) - 1) = part

ApiKeyPrefix == <<"s", "k", "_">>
MinApiKeyLength == 10

\* checkBrowserSecurity throws: a browser that is neither in debug mode nor
\* under Jest, and a key that contains neither 'test' nor 'demo'
checkBrowserSecurity(apiKey, env) ==
    /\ env.isBrowser /\ ~env.isDebug /\ ~env.isJest
    /\ ~includes(apiKey, <<"t", "e", "s", "t">>) /\ ~includes(apiKey, <<"d", "e", "m", "o">>)

\* new StockAlert(config): the error thrown, or the credentials of the client
construct(config, env) ==
    IF ~(config.apiKey.t = "str" /\ config.apiKey.v # <<>>)
    THEN Thrown("ValidationError")
    ELSE IF ~startsWith(config.apiKey.v, ApiKeyPrefix) \/ Len(config.apiKey.v) < MinApiKeyLength
    THEN Thrown("ValidationError")
    ELSE IF checkBrowserSecurity(config.apiKey.v, env) THEN Thrown("Error")
    ELSE Returned([apiKey |-> config.apiKey, bearerToken |-> config.bearerToken])

\* the keys a caller may pass: none, the empty string, without the prefix,
\* too short, of 9 and of 10 characters, of another prefix, a test key and a
\* production key
ApiKeys ==
    {NoKey,
     Key(<<>>),
     Key(<<"i", "n", "v", "a", "l", "i", "d">>),
     Key(<<"s", "k", "_", "1", "2", "3">>),
     Key(<<"s", "k", "_", "1", "2", "3", "4", "5", "6">>),
     Key(<<"s", "k", "_", "1", "2", "3", "4", "5", "6", "7">>),
     Key(<<"p", "k", "_", "t", "e", "s", "t", "_", "k", "e", "y", "_", "1", "2", "3">>),
     Key(<<"s", "k", "_", "t", "e", "s", "t", "_", "k", "e", "y", "_", "1", "2", "3">>),
     Key(<<"s", "k", "_", "l", "i", "v", "e", "_", "k", "e", "y", "_", "1", "2", "3">>)}

Environments == [isBrowser : BOOLEAN, isDebug : {FALSE}, isJest : {FALSE}]

ConstructInputs ==
    {[fn |-> "construct", config |-> [apiKey |-> k, bearerToken |-> b], env |-> e,
      out |-> NotApplied] :
        k \in ApiKeys, b \in {UndefStr, Str(""), Str("tok")}, e \in Environments}

ApplyConstruct ==
    /\ pure.fn = "construct" /\ pure.out = NotApplied
    /\ pure' = [pure EXCEPT !.out = construct(pure.config, pure.env)]
    /\ UNCHANGED <<now, maxRetries, calls, pendingRequests, rateLimitReset, last429, profile>>

(* StockAlert.getConfig *)

MaskPrefixLength == 6
MaskSuffixLength == 4
MaskShortLength == 8
Ellipsis == <<".", ".", ".">>

\* maskApiKey
maskApiKey(apiKey) ==
    IF Len(apiKey) <= MaskShortLength THEN <<"s", "k", "_", "*", "*", "*">>
    ELSE SubSeq(apiKey, 1, Min(MaskPrefixLength, Len(apiKey))) \o Ellipsis
         \o SubSeq(apiKey, Max(Len(apiKey) - MaskSuffixLength, 0) + 1, Len(apiKey))

\* getConfig().apiKey of a client constructed with the key
getConfig(config) == maskApiKey(config.apiKey.v)

\* the clients that exist: their constructor has returned (outside a browser)
GetConfigInputs ==
    {[fn |-> "getConfig", config |-> [apiKey |-> k, bearerToken |-> UndefStr],
      out |-> NotApplied] :
        k \in {x \in ApiKeys :
                 construct([apiKey |-> x, bearerToken |-> UndefStr],
                           [isBrowser |-> FALSE, isDebug |-> FALSE, isJest |-> FALSE]).t
                    = "return"}}

ApplyGetConfig ==
    /\ pure.fn = "getConfig" /\ pure.out = NotApplied
    /\ pure' = [pure EXCEPT !.out = Returned(getConfig(pure.config))]
    /\ UNCHANGED <<now, maxRetries, calls, pendingRequests, rateLimitReset, last429, profile>>

(* WebhooksResource.verifySignature *)

\* bytes of a digest in the model (SHA-256 has 32)
DigestBytes == 2

\* A character of a signature: a literal one, or the i-th hex digit of the
\* HMAC-SHA256 of msg under key.  Digests of different (key, msg) are
\* different: HMAC is taken to be free of collisions.
Lit(c) == [k |-> "lit", c |-> c, key |-> <<>>, msg |-> <<>>, i |-> 0]
Dig(key, msg, i) == [k |-> "dig", c |-> "", key |-> key, msg |-> msg, i |-> i]
isHexDigit(ch) == ch.k = "dig" \/ ch.c \in {"0", "2", "5", "6", "a", "f"}

\* crypto.createHmac('sha256', key).update(msg).digest('hex')
hmacHex(key, msg) == [i \in 1..(2 * DigestBytes) |-> Dig(key, msg, i)]

\* Buffer.from(str, 'hex'): two digits make a byte, and decoding stops at the
\* first pair that is not two hex digits
RECURSIVE bufferFromHex(_)
bufferFromHex(str) ==
    IF Len(str) < 2 \/ ~isHexDigit(str[1]) \/ ~isHexDigit(str[2]) THEN <<>>
    ELSE <<(<<str[1], str[2]>>)>> \o bufferFromHex(SubSeq(str, 3, Len(str)))

SignaturePrefix == [i \in 1..7 |-> Lit(<<"s", "h", "a", "2", "5", "6", "=">>[i])]

\* (mutant) the timestamp is left out of what is signed
signingPayloadLegacy(timestamp, body) == body

\* (mutant) timestamp and body are joined by a colon
signingPayloadColon(timestamp, body) ==
    IF timestamp.t = "undef" \/ timestamp.v = <<>> THEN body
    ELSE timestamp.v \o <<":">> \o body

\* `${normalizedTimestamp}.${body}` when a timestamp is given, else body
signingPayload(timestamp, body) ==
    IF timestamp.t = "undef" \/ timestamp.v = <<>> THEN body
    ELSE timestamp.v \o <<".">> \o body

\* payload: [buffer, v]; the characters of a Buffer are those of its UTF-8 text
verifySignature(payload, signature, secret, timestamp) ==
    IF (~payload.buffer /\ payload.v = <<>>) \/ Len(signature) = 0 \/ Len(secret) = 0
    THEN Returned(FALSE)
    ELSE LET normalizedSignature ==
                 IF startsWith(signature, SignaturePrefix)
                 THEN SubSeq(signature, Len(SignaturePrefix) + 1, Len(signature))
                 ELSE signature
             expectedSignature == hmacHex(secret, signingPayload(timestamp, payload.v))
             provided == bufferFromHex(normalizedSignature)
             expected == bufferFromHex(expectedSignature)
         IN  IF Len(normalizedSignature) = 0 THEN Returned(FALSE)
             ELSE IF Len(provided) # Len(expected) THEN Returned(FALSE)
             ELSE Returned(provided = expected)

\* what the sender of a webhook puts into X-StockAlert-Signature: with a
\* timestamp 'sha256=' and the digest of `${timestamp}.${body}`, without one
\* the digest of the body
sign(body, key, timestamp) ==
    IF timestamp.t = "undef" \/ timestamp.v = <<>> THEN hmacHex(key, body)
    ELSE SignaturePrefix \o hmacHex(key, timestamp.v \o <<".">> \o body)

\* a signature as it arrives: as signed, or malformed
Damaged(sig, how) ==
    CASE how = "none" -> sig
      [] how = "trailing" -> sig \o <<Lit("z")>>
      [] how = "odd" -> sig \o <<Lit("0")>>
      [] how = "short" -> SubSeq(sig, 1, Len(sig) - 2)
      [] how = "nothex" -> <<Lit("z"), Lit("z"), Lit("z"), Lit("z")>>
      [] how = "prefix" -> SignaturePrefix
      [] how = "empty" -> <<>>
Damages == {"none", "trailing", "odd", "short", "nothex", "prefix", "empty"}

PayloadTexts == {<<>>, <<"a">>, <<"b">>}
Secrets == {<<>>, <<"k">>, <<"j">>}
Timestamps == {NoKey, Key(<<>>), Key(<<"1">>)}

\* signer: the secret the sender signed with; damage: what became of the signature
VerifyInputs ==
    {[fn |-> "verify", payload |-> [buffer |-> b, v |-> body],
      signature |-> Damaged(sign(body, signer, ts), how), secret |-> secret,
      timestamp |-> ts, signer |-> signer, damage |-> how, out |-> NotApplied] :
        b \in BOOLEAN, body \in PayloadTexts, signer \in Secrets, secret \in Secrets,
        ts \in Timestamps, how \in Damages}

\* the header of a webhook signed over signedWith and the body, with or
\* without the 'sha256=' prefix
SignedHeader(body, key, signedWith, prefixed) ==
    (IF prefixed THEN SignaturePrefix ELSE <<>>)
       \o hmacHex(key, IF signedWith.t = "undef" \/ signedWith.v = <<>> THEN body
                       ELSE signedWith.v \o <<".">> \o body)

\* `${timestamp}` of the timestamp a verifier passes
VerifierTimestamps == Timestamps \cup {Key(<<"2">>)}

\* a webhook signed over one timestamp and verified with another
\* (signedWith: the timestamp the sender signed over)
BindingInputs ==
    {[fn |-> "verify", payload |-> [buffer |-> b, v |-> body],
      signature |-> SignedHeader(body, key, signedWith, prefixed), secret |-> key,
      timestamp |-> ts, signer |-> key,
      damage |-> IF signingPayload(ts, body) = signingPayload(signedWith, body)
                 THEN "none" ELSE "timestamp",
      signedWith |-> signedWith, prefixed |-> prefixed, out |-> NotApplied] :
        b \in BOOLEAN, body \in PayloadTexts, key \in Secrets,
        signedWith \in VerifierTimestamps, ts \in VerifierTimestamps,
        prefixed \in BOOLEAN}

ApplyVerifySignature ==
    /\ pure.fn = "verify" /\ pure.out = NotApplied
    /\ pure' = [pure EXCEPT !.out =
          verifySignature(pure.payload, pure.signature, pure.secret, pure.timestamp)]
    /\ UNCHANGED <<now, maxRetries, calls, pendingRequests, rateLimitReset, last429, profile>>

(* WebhooksResource.parse *)

\* JavaScript values by their typeof; a number is written as its decimal text
JUndefined == [ty |-> "undefined", v |-> ""]
JNull == [ty |-> "null", v |-> ""]
JString(x) == [ty |-> "string", v |-> x]
JNumber(x) == [ty |-> "number", v |-> x]
JBoolean(x) == [ty |-> "boolean", v |-> x]

\* typeof v === 'string', typeof v === 'number'
IsString(val) == val.ty = "string"
IsNumber(val) == val.ty = "number"

\* Number.isFinite of a number
isFinite(val) == val.ty = "number" /\ val.v \notin {"NaN", "Infinity"}

\* String.prototype.trim and Number(string) on the strings of the model
trim(x) == IF x = " " THEN "" ELSE x
NumberOf(x) ==
    CASE x \in {"1700", "0"} -> JNumber(x)
      [] x \in {"", " "} -> JNumber("0")
      [] x = "Infinity" -> JNumber("Infinity")
      [] OTHER -> JNumber("NaN")

\* (mutant) a numeric string is accepted as it is
normalizeTimestampKeep(value) ==
    IF IsNumber(value) /\ isFinite(value) THEN value
    ELSE IF IsString(value) /\ trim(value.v) # ""
         THEN IF isFinite(NumberOf(value.v)) THEN value ELSE JNull
         ELSE JNull

\* normalizeTimestamp: the number, or null
normalizeTimestamp(value) ==
    IF IsNumber(value) /\ isFinite(value) THEN value
    ELSE IF IsString(value) /\ trim(value.v) # ""
         THEN IF isFinite(NumberOf(value.v)) THEN NumberOf(value.v) ELSE JNull
         ELSE JNull

KNOWN_WEBHOOK_EVENT_NAMES ==
    {"alert.triggered", "alert.paused", "alert.activated", "alert.deleted", "alert.created"}

\* An object as parse sees it: the properties it reads, undefined when absent.
\* data: whether p.data is an object; the other fields after it are those of
\* p.data (undefined when it is not an object).

\* value !== undefined && value !== null && typeof value !== type
WrongOptional(val, type) == val.ty \notin {"undefined", "null", type}

\* (mutant) the type of data.price is not looked at
isValidWebhookEventNoPrice(p) ==
    /\ IsString(p.id) /\ IsString(p.event)
    /\ p.event.v \in KNOWN_WEBHOOK_EVENT_NAMES
    /\ normalizeTimestamp(p.timestamp) # JNull
    /\ p.data
    /\ IsString(p.alert_id) /\ IsString(p.symbol)
    /\ IsString(p.condition) /\ IsString(p.notification)
    /\ IsString(p.status)
    /\ ~WrongOptional(p.threshold, "number")
    /\ ~WrongOptional(p.triggered_at, "string")

\* isValidWebhookEvent, for a payload that is an object
isValidWebhookEvent(p) ==
    /\ IsString(p.id) /\ IsString(p.event)
    /\ p.event.v \in KNOWN_WEBHOOK_EVENT_NAMES
    /\ normalizeTimestamp(p.timestamp) # JNull
    /\ p.data
    /\ IsString(p.alert_id) /\ IsString(p.symbol)
    /\ IsString(p.condition) /\ IsString(p.notification)
    /\ IsString(p.status)
    /\ ~WrongOptional(p.threshold, "number")
    /\ ~WrongOptional(p.triggered_at, "string")
    /\ ~WrongOptional(p.price, "number")

\* the object isValidWebhookEvent was given, after the call: when id, event
\* and timestamp pass, p['timestamp'] = normalizedTimestamp is executed before
\* data is looked at
afterValidation(p) ==
    IF /\ IsString(p.id) /\ IsString(p.event)
       /\ p.event.v \in KNOWN_WEBHOOK_EVENT_NAMES
       /\ normalizeTimestamp(p.timestamp) # JNull
    THEN [p EXCEPT !.timestamp = normalizeTimestamp(@)]
    ELSE p

\* JSON.stringify of a property value: NaN and Infinity become null, and
\* JSON.parse gives back what was written
stringifyValue(val) == IF IsNumber(val) /\ ~isFinite(val) THEN JNull ELSE val
stringify(p) == [f \in DOMAIN p |-> IF f = "data" THEN p[f] ELSE stringifyValue(p[f])]

\* parse: payload.form is "string", "buffer" or "object"; for a text,
\* wellFormed says whether JSON.parse accepts it; top is the typeof of the
\* value ("object", "null", "number"); value holds the properties of an object
parse(payload) ==
    IF payload.form \in {"string", "buffer"} /\ ~payload.wellFormed
    THEN Thrown("ValidationError")
    ELSE IF payload.top # "object" THEN Thrown("ValidationError")
    ELSE IF ~isValidWebhookEvent(payload.value) THEN Thrown("ValidationError")
    ELSE Returned([payload.value EXCEPT !.timestamp = normalizeTimestamp(@)])

\* events that satisfy the schema: timestamp as number or as numeric string,
\* the optional fields absent, null or of their type
ValidEvents ==
    [id : {JString("e1")}, event : {JString("alert.triggered"), JString("alert.created")},
     timestamp : {JNumber("1700"), JString("1700")}, data : {TRUE},
     alert_id : {JString("a1")}, symbol : {JString("AAPL")},
     condition : {JString("price_above")}, notification : {JString("email")},
     status : {JString("triggered")},
     threshold : {JUndefined, JNull, JNumber("200")},
     triggered_at : {JUndefined, JNull, JString("2024-01-01T00:00:00Z")},
     price : {JUndefined, JNumber("201")}]

RequiredStrings == {"id", "event", "alert_id", "symbol", "condition", "notification", "status"}

\* one property of a valid event made wrong
Faults ==
    {<<f, val>> : f \in RequiredStrings, val \in {JUndefined, JNumber("1")}}
    \cup {<<"event", JString("alert.unknown")>>}
    \cup {<<"timestamp", val>> :
            val \in {JUndefined, JNull, JString(""), JString(" "), JString("2024-01-01"),
                     JString("Infinity"), JNumber("NaN"), JNumber("Infinity"),
                     JBoolean("true")}}
    \cup {<<"threshold", JString("200")>>, <<"triggered_at", JNumber("1700")>>,
          <<"price", JString("201")>>, <<"price", JBoolean("true")>>}

NoData(e) ==
    [e EXCEPT !.data = FALSE, !.alert_id = JUndefined, !.symbol = JUndefined,
              !.condition = JUndefined, !.notification = JUndefined,
              !.status = JUndefined, !.threshold = JUndefined,
              !.triggered_at = JUndefined, !.price = JUndefined]

FaultyEvents ==
    {[e EXCEPT ![flt[1]] = flt[2]] : e \in ValidEvents, flt \in Faults}
    \cup {NoData(e) : e \in ValidEvents}

Forms == {"string", "buffer", "object"}

\* event: the object the payload was made from (history)
ParseInputs ==
    {[fn |-> "parse",
      payload |-> [form |-> form, wellFormed |-> TRUE, top |-> "object",
                   value |-> IF form = "object" THEN e ELSE stringify(e)],
      event |-> e, out |-> NotApplied] :
        form \in Forms, e \in ValidEvents \cup FaultyEvents}
    \cup
    {[fn |-> "parse",
      payload |-> [form |-> form, wellFormed |-> wf, top |-> top, value |-> NoData(e)],
      event |-> NoData(e), out |-> NotApplied] :
        form \in Forms, wf \in BOOLEAN, top \in {"null", "number", "object"},
        e \in {CHOOSE x \in ValidEvents : TRUE}}

\* parse(payload); a payload that is an object is the caller's object, and
\* isValidWebhookEvent writes to it
ApplyParse ==
    /\ pure.fn = "parse" /\ pure.out = NotApplied
    /\ pure' = [pure EXCEPT !.out = parse(pure.payload),
                            !.payload.value =
                               IF pure.payload.form = "object" /\ pure.payload.top = "object"
                               THEN afterValidation(@) ELSE @]
    /\ UNCHANGED <<now, maxRetries, calls, pendingRequests, rateLimitReset, last429, profile>>

PureInputs ==
    HeaderInputs \cup ConstructInputs \cup VerifyInputs \cup BindingInputs \cup ParseInputs
       \cup GetConfigInputs

InitPure ==
    /\ now = 0
    /\ profile = "pure"
    /\ maxRetries = 0
    /\ calls = <<>>
    /\ pendingRequests = [e \in Engines |-> EmptyMap]
    /\ rateLimitReset = [e \in Engines |-> EmptyMap]
    /\ last429 = [e \in Engines |-> No429]
    /\ pure \in PureInputs

NextPure ==
    \/ ApplyBuildHeaders
    \/ ApplyConstruct
    \/ ApplyVerifySignature
    \/ ApplyParse
    \/ ApplyGetConfig

SpecPure == InitPure /\ [][NextPure]_vars

----------------------------------------------------------------------------
(* AlertsResource: the calls of a caller.  A behaviour of profile "facade"  *)
(* issues its requests through create and retrieve.                         *)

Valid == [t |-> "ok", v |-> ""]

\* !x for a value that is undefined or a string
Falsy(val) == val.ty \in {"undefined", "null"} \/ (val.ty = "string" /\ val.v = "")

\* /^[A-Z]{1,5}$/.test(symbol.trim()) on the symbols of the model
SymbolFormat(x) == x \in {"AAPL", "MSFT"}

validChannels == {"email", "sms"}
requiresThreshold ==
    {"price_above", "price_below", "price_change_up", "price_change_down",
     "new_high", "new_low", "ma_touch_above", "ma_touch_below",
     "volume_change", "rsi_limit", "pe_ratio_below", "pe_ratio_above",
     "forward_pe_below", "forward_pe_above", "earnings_announcement", "dividend_ex_date"}
noThreshold ==
    {"ma_crossover_golden", "ma_crossover_death", "reminder", "daily_reminder",
     "dividend_payment"}

\* the conditions of the model have no case in the switch of
\* validateConditionSpecificRequirements
validateConditionSpecificRequirements(data) ==
    IF data.condition.v \in requiresThreshold
       /\ ~(IsNumber(data.threshold) /\ isFinite(data.threshold))
    THEN Thrown("requires a valid threshold value")
    ELSE IF data.condition.v \in noThreshold /\ data.threshold # JUndefined
    THEN Thrown("does not use a threshold value")
    ELSE Valid

validateCreateRequest(data) ==
    IF Falsy(data.symbol) \/ ~IsString(data.symbol) \/ trim(data.symbol.v) = ""
    THEN Thrown("Symbol is required and must be a non-empty string")
    ELSE IF Falsy(data.condition) \/ ~IsString(data.condition) \/ trim(data.condition.v) = ""
    THEN Thrown("Condition is required and must be a non-empty string")
    ELSE IF ~SymbolFormat(trim(data.symbol.v))
    THEN Thrown("Symbol must be 1-5 uppercase letters")
    ELSE IF ~Falsy(data.notification) /\ data.notification.v \notin validChannels
    THEN Thrown("Notification must be one of")
    ELSE validateConditionSpecificRequirements(data)

\* uuidRegex.test(id) on the ids of the model: a version 4 UUID, a version 1
\* UUID, and a text that is no UUID
UuidV4 == "11111111-1111-4111-8111-111111111111"
UuidV1 == "11111111-1111-1111-8111-111111111111"
uuidRegex(x) == x = UuidV4

validateId(id) ==
    IF Falsy(id) \/ ~IsString(id) \/ trim(id.v) = "" THEN Thrown("ID is required")
    ELSE IF ~uuidRegex(id.v) THEN Thrown("ID must be a valid UUID")
    ELSE Valid

\* the paths of the two operations
AlertsPath == "p1"
AlertPath == "p2"

\* what the caller of an operation got when validation threw
Refused(op, thrown) ==
    [fn |-> op, out |-> Thrown("ValidationError"), message |-> thrown.v]

\* (mutant) the request is issued before the input is looked at
createPostFirst(data) ==
    /\ profile = "facade"
    /\ validateCreateRequest(data).t = "throw"
    /\ Len(calls) < CallLimit
    /\ LET route == RequestRoute(FirstEngine, "POST", buildUrl(FirstEngine, AlertsPath))
       IN  calls' = Append(calls, NewCall(FirstEngine, "POST", AlertsPath, FALSE, route))
    /\ pure' = Refused("create", validateCreateRequest(data))
    /\ UNCHANGED <<now, maxRetries, pendingRequests, rateLimitReset, last429, profile>>

\* create: validateCreateRequest(data), then post('/api/v1/alerts', data)
create(data) ==
    /\ profile = "facade"
    /\ IF validateCreateRequest(data).t = "throw"
       THEN /\ pure' = Refused("create", validateCreateRequest(data))
            /\ UNCHANGED <<now, maxRetries, calls, pendingRequests, rateLimitReset,
                           last429, profile>>
       ELSE request(FirstEngine, "POST", AlertsPath, FALSE)

\* retrieve: validateId(id), then get(`/api/v1/alerts/${id}`)
retrieve(id) ==
    /\ profile = "facade"
    /\ IF validateId(id).t = "throw"
       THEN /\ pure' = Refused("retrieve", validateId(id))
            /\ UNCHANGED <<now, maxRetries, calls, pendingRequests, rateLimitReset,
                           last429, profile>>
       ELSE request(FirstEngine, "GET", AlertPath, FALSE)

\* the request of the tests, and the ways it is made invalid
GoodRequest ==
    [symbol |-> JString("AAPL"), condition |-> JString("price_above"),
     threshold |-> JNumber("100"), notification |-> JString("email")]

CreateRequests ==
    {GoodRequest,
     [GoodRequest EXCEPT !.notification = JUndefined],
     [GoodRequest EXCEPT !.symbol = JUndefined],
     [GoodRequest EXCEPT !.symbol = JString("invalid symbol!")],
     [GoodRequest EXCEPT !.condition = JUndefined],
     [GoodRequest EXCEPT !.threshold = JUndefined],
     [GoodRequest EXCEPT !.threshold = JNumber("NaN")],
     [GoodRequest EXCEPT !.notification = JString("push")],
     [GoodRequest EXCEPT !.condition = JString("ma_crossover_golden")],
     [GoodRequest EXCEPT !.condition = JString("ma_crossover_golden"),
                         !.threshold = JUndefined]}

AlertIds == {JString(""), JString("invalid-id"), JString(UuidV1), JString(UuidV4)}

InitFacade ==
    /\ now = 0
    /\ profile = "facade"
    /\ maxRetries = CallsRetries
    /\ calls = <<>>
    /\ pendingRequests = [e \in Engines |-> EmptyMap]
    /\ rateLimitReset = [e \in Engines |-> EmptyMap]
    /\ last429 = [e \in Engines |-> No429]
    /\ pure = Idle

NextFacade ==
    \/ \E data \in CreateRequests : create(data)
    \/ \E id \in AlertIds : retrieve(id)
    \/ \E i \in 1..Len(calls) : \E resp \in Answers(now), j \in JitterDraws(calls[i].attempt) :
          Respond(i, resp, j)
    \/ \E i \in 1..Len(calls) :
          \E err \in TransportErrors, j \in JitterDraws(calls[i].attempt) :
             TransportFailure(i, err, j)
    \/ \E i \in 1..Len(calls) : TimerFires(i)
    \/ \E i \in 1..Len(calls) : Wake(i)
    \/ \E i \in 1..Len(calls) : Cleanup(i)
    \/ Tick

SpecFacade == InitFacade /\ [][NextFacade]_vars

----------------------------------------------------------------------------
(* StockAlert.on: the handlers of client c1.  A behaviour of profile        *)
(* "events" subscribes and unsubscribes a handler per event while a request *)
(* of the client runs.  eventHandlers belongs to the client; the resources  *)
(* get resourceConfig only, and no method of the SDK calls emit.            *)

EventNames == {"request:success", "rate:limit"}

\* eventHandlers: the events that have the handler; invoked: how often the
\* handler of an event was called (history)
NoHandlers == [fn |-> "events", handlers |-> {}, invoked |-> [ev \in EventNames |-> 0]]

\* on(event, handler)
on(event) ==
    /\ profile = "events"
    /\ event \notin pure.handlers
    /\ pure' = [pure EXCEPT !.handlers = @ \cup {event}]
    /\ UNCHANGED <<now, maxRetries, calls, pendingRequests, rateLimitReset, last429, profile>>

\* the function on() returned: this.eventHandlers.get(event)?.delete(handler)
unsubscribe(event) ==
    /\ profile = "events"
    /\ event \in pure.handlers
    /\ pure' = [pure EXCEPT !.handlers = @ \ {event}]
    /\ UNCHANGED <<now, maxRetries, calls, pendingRequests, rateLimitReset, last429, profile>>

InitEvents ==
    /\ now = 0
    /\ profile = "events"
    /\ maxRetries = CallsRetries
    /\ calls = <<>>
    /\ pendingRequests = [e \in Engines |-> EmptyMap]
    /\ rateLimitReset = [e \in Engines |-> EmptyMap]
    /\ last429 = [e \in Engines |-> No429]
    /\ pure = NoHandlers

NextEvents ==
    \/ \E ev \in EventNames : on(ev)
    \/ \E ev \in EventNames : unsubscribe(ev)
    \/ \E m \in Methods, p \in Paths : request(FirstEngine, m, p, FALSE)
    \/ \E i \in 1..Len(calls) : \E resp \in Answers(now), j \in JitterDraws(calls[i].attempt) :
          Respond(i, resp, j)
    \/ \E i \in 1..Len(calls) :
          \E err \in TransportErrors, j \in JitterDraws(calls[i].attempt) :
             TransportFailure(i, err, j)
    \/ \E i \in 1..Len(calls) : TimerFires(i)
    \/ \E i \in 1..Len(calls) : Wake(i)
    \/ \E i \in 1..Len(calls) : Cleanup(i)
    \/ Tick

SpecEvents == InitEvents /\ [][NextEvents]_vars

----------------------------------------------------------------------------
(* AlertsResource.createBatch.  A behaviour of profile "batch" calls         *)
(* createBatch with up to MaxBatch items; a batch that passes validation is  *)
(* the only one of its behaviour; the client is configured with              *)
(* maxRetries: 0, so every create of the batch has one attempt.              *)

concurrencyLimit == 5

\* the items of a batch are numbered from 0, as the array is
InvalidIndexes(alerts) ==
    {k \in 0..(Len(alerts) - 1) : validateCreateRequest(alerts[k + 1]).t = "throw"}

\* alerts.forEach: the first item that validateCreateRequest refuses ends it
FirstInvalid(alerts) ==
    CHOOSE k \in InvalidIndexes(alerts) : \A j \in InvalidIndexes(alerts) : k <= j

\* new ValidationError(`Alert at index ${index}: ${message}`)
RefusedAt(index, thrown) ==
    [fn |-> "createBatch", out |-> Thrown("ValidationError"), index |-> index,
     message |-> thrown.v]

\* batch.map(alert => this.create(alert)): every create of the slice runs up
\* to its fetch before Promise.all is awaited.  POST calls are not registered.
DispatchSlice(n) ==
    [k \in 1..n |->
        NewCall(FirstEngine, "POST", AlertsPath, FALSE,
                RequestRoute(FirstEngine, "POST", buildUrl(FirstEngine, AlertsPath)))]

\* (mutant) every item is validated at the moment it is dispatched
createBatchItemwise(alerts) ==
    /\ profile = "batch"
    /\ InvalidIndexes(alerts) # {}
    /\ Len(calls) = 0
    /\ calls' = calls \o DispatchSlice(Min(FirstInvalid(alerts), concurrencyLimit))
    /\ pure' = RefusedAt(FirstInvalid(alerts),
                         validateCreateRequest(alerts[FirstInvalid(alerts) + 1]))
    /\ UNCHANGED <<now, maxRetries, pendingRequests, rateLimitReset, last429, profile>>

\* createBatch: validation of all items, then the first slice of
\* concurrencyLimit items (a batch of the model has no second slice)
createBatch(alerts) ==
    /\ profile = "batch"
    /\ IF InvalidIndexes(alerts) # {}
       THEN /\ pure' = RefusedAt(FirstInvalid(alerts),
                                 validateCreateRequest(alerts[FirstInvalid(alerts) + 1]))
            /\ UNCHANGED <<now, maxRetries, calls, pendingRequests, rateLimitReset,
                           last429, profile>>
       ELSE /\ Len(calls) = 0
            /\ calls' = calls \o DispatchSlice(Min(Len(alerts), concurrencyLimit))
            /\ UNCHANGED <<now, maxRetries, pendingRequests, rateLimitReset, last429,
                           profile, pure>>

\* the items of a batch: the request of the tests, one without symbol and
\* one without threshold
BatchItems ==
    {GoodRequest,
     [GoodRequest EXCEPT !.symbol = JUndefined],
     [GoodRequest EXCEPT !.threshold = JUndefined]}

Batches == UNION {[1..n -> BatchItems] : n \in 0..MaxBatch}

InitBatch ==
    /\ now = 0
    /\ profile = "batch"
    /\ maxRetries = 0
    /\ calls = <<>>
    /\ pendingRequests = [e \in Engines |-> EmptyMap]
    /\ rateLimitReset = [e \in Engines |-> EmptyMap]
    /\ last429 = [e \in Engines |-> No429]
    /\ pure = Idle

NextBatch ==
    \/ \E alerts \in Batches : createBatch(alerts)
    \/ \E i \in 1..Len(calls) : \E resp \in Answers(now), j \in JitterDraws(calls[i].attempt) :
          Respond(i, resp, j)
    \/ \E i \in 1..Len(calls) :
          \E err \in TransportErrors, j \in JitterDraws(calls[i].attempt) :
             TransportFailure(i, err, j)
    \/ \E i \in 1..Len(calls) : TimerFires(i)
    \/ Tick

SpecBatch == InitBatch /\ [][NextBatch]_vars

----------------------------------------------------------------------------
(* AlertsResource.iterate.  A behaviour of profile "iterate" has a server   *)
(* with alerts 1..total and up to MaxIterators generators that read them    *)
(* page by page.  list is the request of the engine for one page: it is     *)
(* fulfilled with the envelope {data, meta} of the page, or rejected.       *)

DefaultLimit == 100
MaxLimit == 100

\* params.limit
LimitParams == {Undef, Num(1), Num(2)}

\* how the server spells the number of pages: as MetaPagination declares
\* it, or as PaginationMeta of the earlier types does
TotalPagesKeys == {"total_pages", "totalPages"}

\* the alerts of a page
ServerPage(total, limit, page) ==
    [k \in 1..Max(0, Min(limit, total - (page - 1) * limit)) |-> (page - 1) * limit + k]

\* meta.pagination of the page
Pagination(total, limit, page, key) ==
    ("page" :> page) @@ ("limit" :> limit) @@ ("total" :> total)
       @@ (key :> CeilDiv(total, limit))

\* list({...baseParams, limit, page}) when the request is fulfilled
list(total, key, limit, page) ==
    [data |-> ServerPage(total, limit, page),
     meta |-> [pagination |-> Pagination(total, limit, page, key)]]

\* obj[name] of an object of numbers
Field(obj, name) == IF name \in DOMAIN obj THEN Num(obj[name]) ELSE Undef

NoResponse == [data |-> <<>>, meta |-> [pagination |-> ("page" :> 0)]]

\* the generator iterate(params) returns: page = 1,
\* limit = Math.min(params?.limit ?? 100, 100); the body has not run yet.
\* requested: the pages list was called for; yielded: the alerts handed out
NewIterator(limitParam) ==
    [page |-> 1,
     limit |-> Min(IF limitParam.t = "undef" THEN DefaultLimit ELSE limitParam.v, MaxLimit),
     pc |-> "list",
     response |-> NoResponse,
     buffer |-> <<>>,
     requested |-> <<>>,
     yielded |-> <<>>]

iterate(limitParam) ==
    /\ profile = "iterate"
    /\ Len(pure.its) < MaxIterators
    /\ pure' = [pure EXCEPT !.its = Append(@, NewIterator(limitParam))]
    /\ UNCHANGED <<now, maxRetries, calls, pendingRequests, rateLimitReset, last429, profile>>

\* const response = await this.list({ ...baseParams, limit, page })
ListFulfils(i) ==
    /\ profile = "iterate"
    /\ pure.its[i].pc = "list"
    /\ LET it == pure.its[i]
           response == list(pure.total, pure.key, it.limit, it.page)
       IN  pure' = [pure EXCEPT !.its[i] =
                       [it EXCEPT !.pc = "yield",
                                  !.response = response,
                                  !.buffer = response.data,
                                  !.requested = Append(@, it.page)]]
    /\ UNCHANGED <<now, maxRetries, calls, pendingRequests, rateLimitReset, last429, profile>>

\* the request of the page is rejected: the generator throws and is finished
ListRejects(i) ==
    /\ profile = "iterate"
    /\ pure.its[i].pc = "list"
    /\ pure' = [pure EXCEPT !.its[i] =
                   [@ EXCEPT !.pc = "threw", !.requested = Append(@, pure.its[i].page)]]
    /\ UNCHANGED <<now, maxRetries, calls, pendingRequests, rateLimitReset, last429, profile>>

\* for (const alert of response.data) yield alert
Yield(i) ==
    /\ profile = "iterate"
    /\ pure.its[i].pc = "yield"
    /\ pure.its[i].buffer # <<>>
    /\ pure' = [pure EXCEPT !.its[i] =
                   [@ EXCEPT !.yielded = Append(@, Head(pure.its[i].buffer)),
                             !.buffer = Tail(@)]]
    /\ UNCHANGED <<now, maxRetries, calls, pendingRequests, rateLimitReset, last429, profile>>

\* after the last alert of the page: break, or page++
NextPage(i) ==
    /\ profile = "iterate"
    /\ pure.its[i].pc = "yield"
    /\ pure.its[i].buffer = <<>>
    /\ LET it == pure.its[i]
           totalPages == Field(it.response.meta.pagination, "totalPages")
       IN  pure' = [pure EXCEPT !.its[i] =
                       IF Len(it.response.data) < it.limit
                          \/ (totalPages.t # "undef" /\ it.page >= totalPages.v)
                       THEN [it EXCEPT !.pc = "done"]
                       ELSE [it EXCEPT !.pc = "list", !.page = @ + 1]]
    /\ UNCHANGED <<now, maxRetries, calls, pendingRequests, rateLimitReset, last429, profile>>

InitIterate ==
    /\ now = 0
    /\ profile = "iterate"
    /\ maxRetries = 0
    /\ calls = <<>>
    /\ pendingRequests = [e \in Engines |-> EmptyMap]
    /\ rateLimitReset = [e \in Engines |-> EmptyMap]
    /\ last429 = [e \in Engines |-> No429]
    /\ \E total \in 0..MaxAlerts, key \in TotalPagesKeys :
          pure = [fn |-> "iterate", total |-> total, key |-> key, its |-> <<>>]

NextIterate ==
    \/ \E limitParam \in LimitParams : iterate(limitParam)
    \/ \E i \in 1..Len(pure.its) : ListFulfils(i)
    \/ \E i \in 1..Len(pure.its) : ListRejects(i)
    \/ \E i \in 1..Len(pure.its) : Yield(i)
    \/ \E i \in 1..Len(pure.its) : NextPage(i)

SpecIterate == InitIterate /\ [][NextIterate]_vars

----------------------------------------------------------------------------
(* AlertsResource.createBatch: the loop over the groups.  A behaviour of    *)
(* profile "pool" follows one createBatch of up to MaxPoolBatch items that  *)
(* passed validation.  A create of the batch is a call of the engine,       *)
(* followed here from its dispatch to the settlement of its promise: it is  *)
(* fulfilled with what executeRequest returns (the data, or data and meta), *)
(* or rejected with the engine's error.                                     *)

PoolValues == {"data", "data+meta"}
PoolErrors == {ApiError("server", 500), NetworkError("failed")}

\* before createBatch is called
PoolIdle ==
    [fn |-> "pool", started |-> FALSE, n |-> 0, item |-> <<>>, i |-> 0,
     results |-> <<>>, batch |-> Pending, failed |-> 0]

Undispatched == [dispatched |-> FALSE, outcome |-> Pending]

\* (mutant) every remaining item is in the slice
SliceAll(i, n) == {k \in 1..n : i < k}

\* alerts.slice(i, i + concurrencyLimit), as positions 1..n of the input
Slice(i, n) == {k \in 1..n : i < k /\ k <= i + concurrencyLimit}

\* batch.map(alert => this.create(alert)): the creates of the slice start
Dispatch(item, slice) ==
    [k \in DOMAIN item |-> IF k \in slice THEN [item[k] EXCEPT !.dispatched = TRUE]
                                           ELSE item[k]]

\* the values of the slice in the order of the input (Promise.all keeps it)
RECURSIVE SliceResults(_, _, _)
SliceResults(item, i, last) ==
    IF last <= i THEN <<>>
    ELSE Append(SliceResults(item, i, last - 1), item[last].outcome.value)

\* createBatch(alerts) with n valid items: the first slice is dispatched; an
\* empty batch returns [] at once
BatchStart(n) ==
    /\ profile = "pool"
    /\ ~pure.started
    /\ pure' = [pure EXCEPT !.started = TRUE,
                            !.n = n,
                            !.item = Dispatch([k \in 1..n |-> Undispatched], Slice(0, n)),
                            !.batch = IF n = 0 THEN Fulfilled(<<>>) ELSE Pending]
    /\ UNCHANGED <<now, maxRetries, calls, pendingRequests, rateLimitReset, last429, profile>>

\* create k is fulfilled.  When it was the last of its slice and the batch is
\* still awaiting Promise.all, the results are pushed and the loop goes on:
\* the next slice is dispatched, or the batch returns its results.
CreateFulfils(k, kind) ==
    /\ profile = "pool"
    /\ pure.started
    /\ k \in 1..pure.n
    /\ pure.item[k].dispatched
    /\ pure.item[k].outcome = Pending
    /\ LET item == [pure.item EXCEPT ![k].outcome = Fulfilled(<<kind, k>>)]
           slice == Slice(pure.i, pure.n)
           last == Min(pure.i + concurrencyLimit, pure.n)
           allDone == \A m \in slice : item[m].outcome.st = "fulfilled"
           results == pure.results \o SliceResults(item, pure.i, last)
       IN  pure' =
             IF pure.batch = Pending /\ allDone
             THEN IF pure.i + concurrencyLimit < pure.n
                  THEN [pure EXCEPT
                           !.item = Dispatch(item, Slice(pure.i + concurrencyLimit, pure.n)),
                           !.i = pure.i + concurrencyLimit,
                           !.results = results]
                  ELSE [pure EXCEPT !.item = item, !.results = results,
                                    !.batch = Fulfilled(results)]
             ELSE [pure EXCEPT !.item = item]
    /\ UNCHANGED <<now, maxRetries, calls, pendingRequests, rateLimitReset, last429, profile>>

\* create k is rejected.  Promise.all rejects with the first rejection of
\* the slice and createBatch throws it; a later rejection changes nothing.
CreateRejects(k, err) ==
    /\ profile = "pool"
    /\ pure.started
    /\ k \in 1..pure.n
    /\ pure.item[k].dispatched
    /\ pure.item[k].outcome = Pending
    /\ LET item == [pure.item EXCEPT ![k].outcome = Rejected(err)]
       IN  pure' = IF pure.batch = Pending
                   THEN [pure EXCEPT !.item = item, !.batch = Rejected(err), !.failed = k]
                   ELSE [pure EXCEPT !.item = item]
    /\ UNCHANGED <<now, maxRetries, calls, pendingRequests, rateLimitReset, last429, profile>>

InitPool ==
    /\ now = 0
    /\ profile = "pool"
    /\ maxRetries = 0
    /\ calls = <<>>
    /\ pendingRequests = [e \in Engines |-> EmptyMap]
    /\ rateLimitReset = [e \in Engines |-> EmptyMap]
    /\ last429 = [e \in Engines |-> No429]
    /\ pure = PoolIdle

NextPool ==
    \/ \E n \in 0..MaxPoolBatch : BatchStart(n)
    \/ \E k \in 1..MaxPoolBatch, kind \in PoolValues : CreateFulfils(k, kind)
    \/ \E k \in 1..MaxPoolBatch, err \in PoolErrors : CreateRejects(k, err)

SpecPool == InitPool /\ [][NextPool]_vars

----------------------------------------------------------------------------
(* Properties *)

\* the step is a call of request(); NewestCall is the record it adds
Issues == Len(calls') = Len(calls) + 1
NewestCall == calls'[Len(calls')]

\* a 4xx status other than 429
ClientErrorStatus(st) == st >= 400 /\ st < 500 /\ st # 429

\* C1: of two identical GET calls on one engine, the second issued before the
\* first has settled, only one makes network attempts, and once both have
\* settled the two callers hold the same result.
C1_ConcurrentGetsShareOneResult ==
    \A j \in 1..Len(calls) :
        LET i == calls[j].twin
        IN  i # 0 =>
              /\ calls[j].netAttempts = 0
              /\ (Outcome(i).st # "pending" /\ Outcome(j).st # "pending")
                    => Outcome(j) = Outcome(i)

\* C2: a GET call issued while a call with its fingerprint is outstanding
\* never settles ahead of that call (no immediate rejection of its own), and
\* settles with the very result of that call.
C2_LateCallerFollowsOutstanding ==
    \A j \in 1..Len(calls) :
        LET i == calls[j].twin
        IN  i # 0 =>
              /\ Outcome(i).st = "pending" => Outcome(j).st = "pending"
              /\ Outcome(i).st # "pending" => Outcome(j) = Outcome(i)

\* C3: a call all of whose attempts failed in the transport has made
\* maxRetries + 1 attempts when it settles, and rejects with NetworkError.
C3_PersistentNetworkFailure ==
    \A i \in 1..Len(calls) :
        LET c == calls[i]
        IN  (c.route = "own" /\ c.outcome.st # "pending"
                /\ c.transportFails = c.netAttempts)
            => /\ c.netAttempts = maxRetriesOf(c) + 1
               /\ c.outcome.st = "rejected"
               /\ c.outcome.err.kind = "NetworkError"

\* C4: a timeout aborts only its attempt: a call rejects with the timeout
\* error only when no attempt remains (attempt = maxRetries).
C4_TimeoutAbortsOnlyTheAttempt ==
    \A i \in 1..Len(calls) :
        calls[i].outcome = Rejected(NetworkError("timeout"))
            => calls[i].attempt >= maxRetriesOf(calls[i])

\* C5: every attempt in flight, the first and every retry, with or without a
\* caller-supplied signal, is bound to the timeout: the timer is armed and
\* fetch listens to the signal the timer aborts.
C5_EveryAttemptBoundToTimeout ==
    \A i \in 1..Len(calls) :
        calls[i].pc = "fetching" => calls[i].timer /\ ~calls[i].hasSignal

\* C6: after a 429 that carried Retry-After: 5 and no X-RateLimit-Reset, a
\* call to the origin within 5 seconds is rejected without a network attempt
\* and a call after 5 seconds is not rejected by the pre-check.
C6_RetryAfterHeaderCooldown ==
    [][Issues =>
         LET c == NewestCall
             e == c.eng
             at == StoredReset(e, OriginOf(e)).v - DefaultCooldown
         IN  ( /\ last429[e].seen
               /\ last429[e].retryAfter = Num(RetryAfterHeader)
               /\ last429[e].reset = "undef" )
             => /\ now < at + RetryAfterHeader * MsPerSecond
                     => c.route = "precheck" /\ c.netAttempts = 0
                /\ now > at + RetryAfterHeader * MsPerSecond
                     => c.route # "precheck"
      ]_vars

\* C7: once an engine has recorded a reset time R for an origin, a new call
\* to the origin before R rejects with a RateLimitError whose retryAfter is
\* (R - now) / 1000 rounded up, without a network attempt and without a
\* registry entry; a new call at or after R is not rejected by the pre-check.
C7_PreCheckRejectsUntilReset ==
    [][Issues =>
         LET c == NewestCall
             R == StoredReset(c.eng, OriginOf(c.eng))
             r == c.outcome.err.retryAfter
         IN  R.t = "num" =>
               /\ now < R.v =>
                    /\ c.route = "precheck"
                    /\ c.outcome.st = "rejected"
                    /\ c.outcome.err.kind = "RateLimitError"
                    /\ r.t = "num"
                    /\ r.v * MsPerSecond >= R.v - now
                    /\ (r.v - 1) * MsPerSecond < R.v - now
                    /\ c.netAttempts = 0
                    /\ pendingRequests' = pendingRequests
               /\ now >= R.v => c.route # "precheck"
      ]_vars

\* a call was rejected by the pre-check half a second before the reset time,
\* with retryAfter 1
C7_Witness ==
    \E j \in 1..Len(calls) :
        /\ calls[j].route = "precheck"
        /\ calls[j].outcome.err.retryAfter = Num(1)
        /\ StoredReset(calls[j].eng, OriginOf(calls[j].eng)).v - now = MsPerSecond \div 2

\* C8: the cooldown belongs to the client: a new call is rejected by the
\* pre-check exactly when some resource of its own client has recorded, for
\* the origin, a reset time that lies ahead; what another client has recorded
\* makes no difference.
C8_CooldownSharedByClient ==
    [][Issues =>
         LET c == NewestCall
             cooled == \E e \in Engines :
                          /\ ClientOf(e) = ClientOf(c.eng)
                          /\ OriginOf(e) = OriginOf(c.eng)
                          /\ StoredReset(e, OriginOf(e)).t = "num"
                          /\ now < StoredReset(e, OriginOf(e)).v
         IN  (c.route = "precheck") <=> cooled
      ]_vars

\* C9: a call answered 401 is rejected with AuthenticationError, one
\* answered another 4xx but 429 with an ApiError of that status, and the
\* answer is the end of the call: no sleep and no further attempt follow it.
C9_ClientErrorsNotRetried ==
    \A i \in 1..Len(calls) :
        LET c == calls[i]
            a == c.answered
        IN  ClientErrorStatus(a.status) =>
              /\ c.outcome.st = "rejected"
              /\ a.status = 401 => c.outcome.err.kind = "AuthenticationError"
              /\ a.status # 401 => /\ c.outcome.err.kind = "ApiError"
                                   /\ c.outcome.err.status = a.status
              /\ c.attempt = 0 => c.netAttempts = 1 /\ c.sleeps = 0

\* C10: a call answered with a content type that is not JSON is rejected with
\* ApiError by that answer, whatever the status: no sleep and no further
\* attempt follow it.
C10_NonJsonNotRetried ==
    \A i \in 1..Len(calls) :
        LET c == calls[i]
            a == c.answered
        IN  (a.status # 0 /\ ~a.json) =>
              /\ c.outcome.st = "rejected"
              /\ c.outcome.err.kind = "ApiError"
              /\ c.attempt = 0 => c.netAttempts = 1 /\ c.sleeps = 0

\* C11: when the last attempt of a call (attempt = maxRetries) fails, the
\* call rejects with the error that attempt raised: the error of the try
\* block for an answer, the TypeError for a transport failure (a TypeError
\* of fetch in its NetworkError form); never the error of an earlier attempt.
C11_RejectsWithFinalAttemptError ==
    [][\A i \in 1..Len(calls) :
          calls[i].attempt = maxRetriesOf(calls[i]) =>
            /\ \A resp \in {r \in Answers(now) : r.status = calls'[i].answered.status},
                  j \in JitterDraws(calls[i].attempt) :
                  (Respond(i, resp, j) /\ ~AttemptResult(resp, now).ok)
                     => calls'[i].outcome = Rejected(AttemptResult(resp, now).err)
            /\ \A err \in TransportErrors, j \in JitterDraws(calls[i].attempt) :
                  TransportFailure(i, err, j)
                     => calls'[i].outcome =
                           Rejected(IF err = TypeErrorFetch THEN NetworkError("failed")
                                                            ELSE err)
      ]_vars

\* a call with one retry has rejected with the 500 of its second attempt
\* after a first attempt that failed in the transport
C11_Witness ==
    \E i \in 1..Len(calls) :
        /\ maxRetriesOf(calls[i]) = 1
        /\ calls[i].netAttempts = 2 /\ calls[i].transportFails = 1
        /\ calls[i].answered.status = 500 /\ calls[i].answered.json /\ calls[i].answered.parses
        /\ calls[i].outcome = Rejected(ApiError("server", 500))
\* the call whose attempts serve caller i: its own, or the one it was
\* deduplicated onto
Serving(i) == IF calls[i].route = "dedup" THEN calls[i].share ELSE i

\* C12: once the signal a caller passed is aborted, no further attempt of
\* its call goes to the network and the promise the caller holds is not
\* fulfilled.
C12_AbortCancelsTheCall ==
    [][\A i \in 1..Len(calls) :
          calls[i].aborted # NoError =>
            /\ calls'[Serving(i)].netAttempts = calls[Serving(i)].netAttempts
            /\ Outcome(i)'.st # "fulfilled"
      ]_vars
\* the caller's entries of options.headers that HTTP reads as Authorization
CallerAuthorization(h) == Sent(h, "authorization")

\* C13: the headers handed to fetch carry exactly one of the credentials
\* x-api-key and authorization; without a caller's Authorization header it is
\* the bearer token when one is configured, else the API key; a caller's
\* Authorization header is sent as the caller gave it, and no API key with it.
C13_ExactlyOneCredential ==
    (pure.fn = "headers" /\ pure.out # NotApplied) =>
        LET h == pure.out.v
            auth == Sent(h, "authorization")
            key == Sent(h, "x-api-key")
            mine == CallerAuthorization(pure.headers)
        IN  /\ (auth = {}) # (key = {})
            /\ mine = {} =>
                  IF StrTruthy(pure.cfg.bearerToken)
                  THEN auth = {<<"Authorization", <<"Bearer", pure.cfg.bearerToken.v>>>>}
                  ELSE key = {<<"X-API-Key", pure.cfg.apiKey>>}
            /\ mine # {} => auth = mine /\ key = {}
\* C14: construction throws ValidationError exactly when no apiKey is
\* supplied and no bearerToken either, or the apiKey supplied does not start
\* with the prefix or is shorter than the minimum; with a bearerToken and no
\* apiKey it succeeds.
C14_ConstructionValidation ==
    (pure.fn = "construct" /\ pure.out # NotApplied) =>
        LET k == pure.config.apiKey
            supplied == k.t = "str"
            wellFormed == startsWith(k.v, ApiKeyPrefix) /\ Len(k.v) >= MinApiKeyLength
        IN  (pure.out.t = "throw" /\ pure.out.v = "ValidationError")
               <=> \/ ~supplied /\ ~StrTruthy(pure.config.bearerToken)
                   \/ supplied /\ ~wellFormed
\* C15: a signature made by sign over the payload (and the timestamp, if
\* one is given) verifies under the signer's secret and under no other.
C15_VerifyAcceptsExactlyTheSigner ==
    (pure.fn = "verify" /\ pure.out # NotApplied /\ pure.damage = "none") =>
        pure.out.v = (pure.secret = pure.signer)

\* C15, for payloads other than the empty string and for a signer's secret
\* that is not empty: the same.
C15_VerifyAcceptsExactlyTheSignerNonEmpty ==
    ( /\ pure.fn = "verify" /\ pure.out # NotApplied /\ pure.damage = "none"
      /\ (pure.payload.buffer \/ pure.payload.v # <<>>)
      /\ pure.signer # <<>> ) =>
        pure.out.v = (pure.secret = pure.signer)

\* a signature over timestamp and body was accepted under the signer's secret
C15_Witness ==
    /\ pure.fn = "verify" /\ pure.out # NotApplied /\ pure.damage = "none"
    /\ pure.payload.v # <<>> /\ pure.signer # <<>>
    /\ pure.timestamp = Key(<<"1">>)
    /\ pure.secret = pure.signer
    /\ pure.out.v = TRUE

\* C16: a signature that is not the hex digits of a digest (wrong length,
\* characters that are not hex, empty), an empty payload and an empty secret
\* make verifySignature return false, and nothing makes it throw.
C16_MalformedInputIsRejected ==
    (pure.fn = "verify" /\ pure.out # NotApplied) =>
        /\ pure.out.t = "return"
        /\ (pure.damage # "none" \/ pure.payload.v = <<>> \/ pure.secret = <<>>)
              => pure.out.v = FALSE
\* the schema of a webhook event: string id, a recognized event name, a
\* timestamp that is a finite number or the text of one, a data object with
\* its five strings, the optional fields absent, null or of their type
SatisfiesSchema(e) ==
    /\ e.id.ty = "string" /\ e.event.ty = "string"
    /\ e.event.v \in KNOWN_WEBHOOK_EVENT_NAMES
    /\ \/ e.timestamp.ty = "number" /\ e.timestamp.v \notin {"NaN", "Infinity"}
       \/ e.timestamp.ty = "string" /\ e.timestamp.v \in {"1700", "0"}
    /\ e.data
    /\ \A f \in {"alert_id", "symbol", "condition", "notification", "status"} :
          e[f].ty = "string"
    /\ e.threshold.ty \in {"undefined", "null", "number"}
    /\ e.triggered_at.ty \in {"undefined", "null", "string"}
    /\ e.price.ty \in {"undefined", "null", "number"}

\* C17: parse of a serialized or an already decoded event that satisfies the
\* schema returns the event, its timestamp as a number: the number itself,
\* or the one a numeric string denotes.
C17_ParseRoundTrip ==
    ( /\ pure.fn = "parse" /\ pure.out # NotApplied
      /\ pure.payload.wellFormed /\ pure.payload.top = "object"
      /\ SatisfiesSchema(pure.event) ) =>
        /\ pure.out.t = "return"
        /\ pure.out.v = [pure.event EXCEPT !.timestamp = [ty |-> "number", v |-> @.v]]

\* an event with the timestamp "1700" arrived as a Buffer and was returned
\* with the timestamp 1700
C17_Witness ==
    /\ pure.fn = "parse" /\ pure.out # NotApplied
    /\ pure.payload.form = "buffer"
    /\ SatisfiesSchema(pure.event)
    /\ pure.event.timestamp = JString("1700")
    /\ pure.out.t = "return"
    /\ pure.out.v.timestamp = JNumber("1700")
    /\ pure.out.v.threshold = JNumber("200")

\* C18: for a text that is not JSON, a value that is not an object, and an
\* object that does not satisfy the schema, parse throws ValidationError and
\* returns nothing.
C18_ParseRejectsInvalid ==
    ( /\ pure.fn = "parse" /\ pure.out # NotApplied
      /\ \/ pure.payload.form # "object" /\ ~pure.payload.wellFormed
         \/ pure.payload.top # "object"
         \/ ~SatisfiesSchema(pure.event) ) =>
        pure.out.t = "throw" /\ pure.out.v = "ValidationError"

\* an event whose price is a string was rejected
C18_Witness ==
    /\ pure.fn = "parse" /\ pure.out # NotApplied
    /\ pure.payload.wellFormed /\ pure.payload.top = "object"
    /\ pure.event.price = JString("201")
    /\ SatisfiesSchema([pure.event EXCEPT !.price = JUndefined])
    /\ pure.out.t = "throw" /\ pure.out.v = "ValidationError"

\* C19: what create and retrieve hand to their caller for an envelope with
\* success true and data is the data itself, also when the envelope has a
\* meta object (neither operation is a list: its meta holds no pagination).
C19_SingleResourceIsUnwrapped ==
    profile = "facade" =>
        \A i \in 1..Len(calls) :
            Outcome(i).st = "fulfilled" => Outcome(i).value[1] = "data"

\* C20: a create or retrieve whose input fails validation (such as
\* price_above without threshold, or an id that is no UUID) throws
\* ValidationError, issues no request and leaves the calls, the registry and
\* the rate-limit state as they were.
C20_InvalidInputStopsAtTheFacade ==
    [][ /\ \A data \in CreateRequests :
              ( /\ create(data)
                /\ \/ validateCreateRequest(data).t = "throw"
                   \/ data.condition = JString("price_above") /\ data.threshold = JUndefined )
              => /\ pure'.out.t = "throw" /\ pure'.out.v = "ValidationError"
                 /\ UNCHANGED <<calls, pendingRequests, rateLimitReset, last429>>
        /\ \A id \in AlertIds :
              ( /\ retrieve(id)
                /\ \/ validateId(id).t = "throw"
                   \/ id.v # UuidV4 )
              => /\ pure'.out.t = "throw" /\ pure'.out.v = "ValidationError"
                 /\ UNCHANGED <<calls, pendingRequests, rateLimitReset, last429>>
      ]_vars

\* create was refused for the missing threshold while a GET was in the
\* registry and a cooldown was stored
C20_Witness ==
    /\ profile = "facade"
    /\ pure.fn = "create"
    /\ pure.message = "requires a valid threshold value"
    /\ pendingRequests[FirstEngine] # EmptyMap
    /\ rateLimitReset[FirstEngine] # EmptyMap

\* the fingerprint of call i
KeyOf(i) == requestKey(calls[i].method, buildUrl(calls[i].eng, calls[i].path))

\* C25: the registry of an engine holds entries for GET fingerprints only,
\* each the promise of a call of that engine with that fingerprint whose
\* finally callback has not run; a GET that started executeRequest is in the
\* registry from its dispatch until that callback, whether it was fulfilled
\* or rejected; when every call is done the registries are empty.
C25_RegistryInvariant ==
    /\ \A e \in Engines : \A key \in DOMAIN pendingRequests[e] :
          LET i == pendingRequests[e][key]
          IN  /\ key[1] = "GET"
              /\ i \in 1..Len(calls)
              /\ calls[i].eng = e /\ KeyOf(i) = key
              /\ calls[i].route = "own" /\ calls[i].pc # "done"
    /\ \A i \in 1..Len(calls) :
          (calls[i].method = "GET" /\ calls[i].route = "own" /\ calls[i].pc # "done")
             => /\ KeyOf(i) \in DOMAIN pendingRequests[calls[i].eng]
                /\ pendingRequests[calls[i].eng][KeyOf(i)] = i
    /\ (\A i \in 1..Len(calls) : calls[i].pc = "done")
          => \A e \in Engines : pendingRequests[e] = EmptyMap

\* a GET was rejected, its finally callback has run, a second GET with the
\* fingerprint was fulfilled, and the registry is empty
C25_Witness ==
    /\ Len(calls) = 2
    /\ \A i \in 1..2 : calls[i].method = "GET" /\ calls[i].route = "own" /\ calls[i].pc = "done"
    /\ KeyOf(1) = KeyOf(2)
    /\ calls[1].outcome.st = "rejected" /\ calls[2].outcome.st = "fulfilled"
    /\ pendingRequests[FirstEngine] = EmptyMap

\* C26: a call of another method than GET is never served from the
\* registry and never entered in it: each such call that passes the
\* pre-check makes its own network attempts, also next to a call with the
\* same method and URL that is in flight.
C26_NonGetNeverDeduplicated ==
    /\ \A i \in 1..Len(calls) :
          calls[i].method # "GET" =>
             /\ calls[i].route # "dedup"
             /\ calls[i].route = "own" => calls[i].netAttempts >= 1
             /\ KeyOf(i) \notin DOMAIN pendingRequests[calls[i].eng]
    /\ \A e \in Engines : \A key \in DOMAIN pendingRequests[e] : key[1] = "GET"

\* two POSTs of one engine to one path are in flight together, each with a
\* network attempt of its own
C26_Witness ==
    /\ Len(calls) = 2
    /\ \A i \in 1..2 : /\ calls[i].method = "POST" /\ calls[i].pc = "fetching"
                       /\ calls[i].netAttempts = 1
    /\ KeyOf(1) = KeyOf(2)
    /\ pendingRequests[FirstEngine] = EmptyMap

\* C27: an attempt goes to the network (the first of a call, or a retry)
\* only while the reset time its engine has stored for the origin does not
\* lie ahead.
C27_NoDispatchDuringCooldown ==
    [][\A i \in 1..Len(calls') :
          LET before == IF i <= Len(calls) THEN calls[i].netAttempts ELSE 0
              e == calls'[i].eng
          IN  calls'[i].netAttempts > before
                 => ~checkRateLimit(StoredReset(e, OriginOf(e)), now)
      ]_vars

\* C28: a response with status 429 stores, for the origin of the call, the
\* reset time of its X-RateLimit-Reset header, or now + 60 s without the
\* header, and the attempt fails with a RateLimitError whose retryAfter is
\* the time until that reset in seconds, rounded up; no other step changes
\* the stored rate-limit state.
C28_Every429RecordsReset ==
    [][ /\ \A i \in 1..Len(calls) :
              \A resp \in Answers(now), j \in JitterDraws(calls[i].attempt) :
                 (resp.status = 429 /\ Respond(i, resp, j)) =>
                    LET e == calls[i].eng
                        R == StoredReset(e, OriginOf(e))'
                        err == IF calls'[i].outcome.st = "rejected"
                               THEN calls'[i].outcome.err ELSE calls'[i].lastError
                    IN  /\ R.t = "num"
                        /\ R.v = IF resp.reset.t = "undef" THEN now + DefaultCooldown
                                                           ELSE resp.reset.v
                        /\ err.kind = "RateLimitError"
                        /\ err.retryAfter.t = "num"
                        /\ err.retryAfter.v * MsPerSecond >= R.v - now
                        /\ (err.retryAfter.v - 1) * MsPerSecond < R.v - now
        /\ rateLimitReset' # rateLimitReset =>
              \E i \in 1..Len(calls) :
                 \E resp \in Answers(now), j \in JitterDraws(calls[i].attempt) :
                    resp.status = 429 /\ Respond(i, resp, j)
      ]_vars

\* the step puts call i to sleep
Sleeps(i) == calls'[i].sleeps = calls[i].sleeps + 1

\* the error is a rate limit that tells how long to wait
KnownRetryAfter(err) ==
    err.kind = "RateLimitError" /\ err.retryAfter.t = "num" /\ err.retryAfter.v > 0

C30_BackoffBounds ==
    [][\A i \in 1..Len(calls) :
          Sleeps(i) =>
             LET k == calls'[i].attempt    \* the attempt that failed
                 limit == IF calls[i].retries.t = "num" THEN calls[i].retries.v
                                                          ELSE maxRetries
                 b == IF BackoffUnit * (2 ^ k) < BackoffCap THEN BackoffUnit * (2 ^ k)
                                                             ELSE BackoffCap
                 d == calls'[i].wakeAt - now
             IN  /\ k < limit
                 /\ ~KnownRetryAfter(calls'[i].lastError)
                       => b <= d /\ 10 * d <= 13 * b
      ]_vars

\* after its fifth attempt a call sleeps the capped delay of 10 s and the
\* greatest jitter
C30_Witness ==
    \E i \in 1..Len(calls) :
        /\ calls[i].pc = "sleeping" /\ calls[i].attempt = 4
        /\ calls[i].lastError.kind = "ApiError"
        /\ calls[i].wakeAt - now > BackoffCap

\* the characters of the key that the masked key shows: what stands before
\* and after its three dots
Shown(masked) ==
    SubSeq(masked, 1, MaskPrefixLength)
       \o SubSeq(masked, MaskPrefixLength + Len(Ellipsis) + 1, Len(masked))

\* C24: the masked key getConfig returns for a key the constructor accepted
\* does not show every character of the key.
C24_KeyNeverFullyDisclosed ==
    (pure.fn = "getConfig" /\ pure.out # NotApplied) =>
        Shown(pure.out.v) # pure.config.apiKey.v

\* C23: while the handler of 'rate:limit' is subscribed it is called at every
\* answer that rate limits a request of the client, and while the handler of
\* 'request:success' is subscribed it is called at every answer that fulfils
\* one.
C23_SubscribedHandlersAreInvoked ==
    [][\A i \in 1..Len(calls) :
          \A resp \in {r \in Answers(now) : r.status = calls'[i].answered.status},
             j \in JitterDraws(calls[i].attempt) :
             (profile = "events" /\ Respond(i, resp, j)) =>
                /\ ("rate:limit" \in pure.handlers /\ Records429(resp))
                      => pure'.invoked["rate:limit"] = pure.invoked["rate:limit"] + 1
                /\ ("request:success" \in pure.handlers /\ AttemptResult(resp, now).ok)
                      => pure'.invoked["request:success"] =
                            pure.invoked["request:success"] + 1
      ]_vars

\* C21: a createBatch with an invalid item fails with a ValidationError that
\* names the index of the first invalid item, and sends nothing: no call is
\* added and the state of the engine is as it was.
C21_BatchValidatedBeforeDispatch ==
    [][\A alerts \in Batches :
          LET bad == {k \in 1..Len(alerts) : validateCreateRequest(alerts[k]).t = "throw"}
          IN  (bad # {} /\ createBatch(alerts)) =>
                 /\ pure'.fn = "createBatch"
                 /\ pure'.out = Thrown("ValidationError")
                 /\ pure'.index + 1 \in bad
                 /\ \A k \in bad : pure'.index + 1 <= k
                 /\ UNCHANGED <<calls, pendingRequests, rateLimitReset, last429>>
      ]_vars

\* a batch was refused for its second item, and its first item was not sent
C21_Witness ==
    /\ profile = "batch"
    /\ pure.fn = "createBatch"
    /\ pure.index = 1
    /\ calls = <<>>

\* the alerts of pages 1..n, in page order
RECURSIVE PagesUpTo(_, _, _)
PagesUpTo(total, limit, n) ==
    IF n = 0 THEN <<>> ELSE PagesUpTo(total, limit, n - 1) \o ServerPage(total, limit, n)

\* the pagination metadata of page k says that page k is the last
SaysLast(total, limit, k) == k >= CeilDiv(total, limit)

\* C22: every generator of iterate requests the pages 1, 2, 3, ... in order,
\* starting at 1 whatever the other generators did, yields the alerts of the
\* pages in page order, and requests no page after a page that was shorter than
\* the limit or that the pagination metadata called the last.
C22_IteratePagesInOrderAndStops ==
    profile = "iterate" =>
       \A i \in 1..Len(pure.its) :
          LET it == pure.its[i]
              n == Len(it.requested)
              got == IF it.pc = "threw"
                     THEN PagesUpTo(pure.total, it.limit, n - 1)
                     ELSE PagesUpTo(pure.total, it.limit, n)
          IN  /\ it.requested = [k \in 1..n |-> k]
              /\ Len(it.yielded) <= Len(got)
              /\ it.yielded = SubSeq(got, 1, Len(it.yielded))
              /\ it.pc \in {"list", "done"} => it.yielded = got
              /\ \A k \in 1..(n - 1) :
                    /\ Len(ServerPage(pure.total, it.limit, k)) = it.limit
                    /\ ~SaysLast(pure.total, it.limit, k)

\* C31: a 2xx JSON response whose envelope has success true and data fulfils
\* the call with data and meta when the envelope has meta and with data alone
\* otherwise; one whose envelope has success false or no data fails the attempt
\* with the ApiError of the response status built from the envelope.
C31_EnvelopeUnwrapping ==
    [][\A i \in 1..Len(calls) :
          \A resp \in {r \in Answers(now) : /\ r.status = calls'[i].answered.status
                                           /\ r.status >= 200 /\ r.status <= 299
                                           /\ r.json /\ r.parses},
             j \in JitterDraws(calls[i].attempt) :
             (profile = "loop" /\ Respond(i, resp, j)) =>
                IF resp.envOk
                THEN calls'[i].outcome =
                        Fulfilled(IF resp.meta THEN <<"data+meta", resp.body>>
                                               ELSE <<"data", resp.body>>)
                ELSE \/ calls'[i].outcome = Rejected(ApiError("server", resp.status))
                     \/ /\ calls'[i].pc = "sleeping"
                        /\ calls'[i].lastError = ApiError("server", resp.status)
      ]_vars

\* a call was fulfilled with data and meta after an earlier attempt had failed
C31_Witness ==
    /\ profile = "loop"
    /\ \E i \in 1..Len(calls) :
          /\ calls[i].outcome.st = "fulfilled"
          /\ calls[i].outcome.value[1] = "data+meta"
          /\ calls[i].attempt > 0

\* the creates of the batch that were dispatched and have not settled
InFlight == {k \in 1..pure.n : pure.item[k].dispatched /\ pure.item[k].outcome = Pending}

\* the group of an item: 1 for the items 1..5, 2 for the items 6..10, ...
GroupOf(k) == ((k - 1) \div 5) + 1

\* C32: at most 5 creates of a createBatch are in flight at any time, and a
\* create is dispatched only when every create of the groups before its own
\* has been fulfilled.
C32_AtMostFiveInFlight ==
    profile = "pool" =>
       /\ Cardinality(InFlight) <= 5
       /\ \A k \in 1..pure.n :
             pure.item[k].dispatched =>
                \A m \in 1..pure.n :
                   GroupOf(m) < GroupOf(k) => pure.item[m].outcome.st = "fulfilled"

\* the five creates of the first group were fulfilled and two creates of the
\* second group are in flight
C32_Witness ==
    /\ profile = "pool"
    /\ pure.n = 7
    /\ \A m \in 1..5 : pure.item[m].outcome.st = "fulfilled"
    /\ InFlight = {6, 7}

\* C40: when a create of a group fails, createBatch rejects with the error of
\* the first create to fail and no item of a later group is ever dispatched;
\* the other creates of the group are left to settle and what has settled
\* stays settled (nothing is cancelled or undone); when createBatch succeeds
\* its result has one entry per input, entry k being the alert created for
\* input k.
C40_NoRollbackStopsAtFirstFailure ==
    [][profile = "pool" =>
          /\ \A k \in 1..pure'.n :
                pure'.item[k].outcome.st = "rejected" =>
                   /\ pure'.batch.st = "rejected"
                   /\ pure'.failed \in 1..pure'.n
                   /\ pure'.batch = pure'.item[pure'.failed].outcome
                   /\ \A m \in 1..pure'.n :
                         GroupOf(m) > GroupOf(pure'.failed) => ~pure'.item[m].dispatched
          /\ \A k \in 1..pure.n :
                /\ pure.item[k].outcome # Pending => pure'.item[k] = pure.item[k]
                /\ pure.item[k].dispatched => pure'.item[k].dispatched
                /\ (pure.item[k].outcome = Pending /\ pure'.item[k].outcome # Pending)
                      => \A m \in 1..pure.n \ {k} :
                            pure'.item[m].outcome = pure.item[m].outcome
          /\ pure'.batch.st = "fulfilled" =>
                /\ Len(pure'.batch.value) = pure'.n
                /\ \A k \in 1..pure'.n : pure'.batch.value[k] = <<"data", k>>
      ]_vars

\* the signature with its 'sha256=' prefix taken off, or put on
TogglePrefix(sig) ==
    IF startsWith(sig, SignaturePrefix) THEN SubSeq(sig, Len(SignaturePrefix) + 1, Len(sig))
    ELSE SignaturePrefix \o sig

\* the timestamp a call binds: none for undefined and for the empty string
Bound(timestamp) ==
    IF timestamp.t = "undef" \/ timestamp.v = <<>> THEN <<>> ELSE <<timestamp.v>>

\* C33: a signature made over a timestamp T and the payload verifies with T
\* and is rejected for the same payload with another timestamp and with no
\* timestamp; one made over the payload alone verifies without a timestamp
\* only; and the result is the same with and without the 'sha256=' prefix on
\* the signature.
C33_TimestampIsBound ==
    (pure.fn = "verify" /\ pure.out # NotApplied /\ "signedWith" \in DOMAIN pure) =>
        /\ ((pure.payload.buffer \/ pure.payload.v # <<>>) /\ pure.secret # <<>>)
              => pure.out.v = (Bound(pure.timestamp) = Bound(pure.signedWith))
        /\ pure.out = verifySignature(pure.payload, TogglePrefix(pure.signature),
                                      pure.secret, pure.timestamp)

\* a prefixed signature over timestamp 1 and the body was rejected with
\* timestamp 2
C33_Witness ==
    /\ pure.fn = "verify" /\ pure.out # NotApplied /\ "signedWith" \in DOMAIN pure
    /\ pure.signedWith = Key(<<"1">>)
    /\ pure.timestamp = Key(<<"2">>)
    /\ pure.prefixed
    /\ pure.payload.v # <<>> /\ pure.secret # <<>>
    /\ pure.out.v = FALSE

\* the signature with an optional 'sha256=' prefix removed
Unprefixed(sig) ==
    IF startsWith(sig, SignaturePrefix) THEN SubSeq(sig, Len(SignaturePrefix) + 1, Len(sig))
    ELSE sig

\* C34: verifySignature returns true only if the signature, after removal of
\* an optional 'sha256=' prefix, is exactly the hex digits of the expected
\* digest; the digest followed by more characters is rejected.
C34_OnlyTheExactDigestVerifies ==
    (pure.fn = "verify" /\ pure.out # NotApplied /\ pure.out.v = TRUE) =>
        Unprefixed(pure.signature) =
           hmacHex(pure.secret,
                   IF Bound(pure.timestamp) = <<>> THEN pure.payload.v
                   ELSE pure.timestamp.v \o <<".">> \o pure.payload.v)

\* the payload T + '.' + P as a string
Joined(timestamp, payload) == [buffer |-> FALSE, v |-> timestamp.v \o <<".">> \o payload.v]

\* C39: with a timestamp T that is not empty, verifySignature(P, sig, S, T) is
\* verifySignature(T + '.' + P, sig, S); with a timestamp that is undefined
\* or the empty string it is verifySignature(P, sig, S).
C39_TimestampedIsLegacyOfJoined ==
    (pure.fn = "verify" /\ pure.out # NotApplied) =>
        pure.out = IF Bound(pure.timestamp) = <<>>
                   THEN verifySignature(pure.payload, pure.signature, pure.secret, NoKey)
                   ELSE verifySignature(Joined(pure.timestamp, pure.payload),
                                        pure.signature, pure.secret, NoKey)

\* C39, for payloads other than the empty string: the same.
C39_TimestampedIsLegacyOfJoinedNonEmpty ==
    (pure.fn = "verify" /\ pure.out # NotApplied
        /\ (pure.payload.buffer \/ pure.payload.v # <<>>)) =>
        pure.out = IF Bound(pure.timestamp) = <<>>
                   THEN verifySignature(pure.payload, pure.signature, pure.secret, NoKey)
                   ELSE verifySignature(Joined(pure.timestamp, pure.payload),
                                        pure.signature, pure.secret, NoKey)

\* a signature was accepted with timestamp 1, as it is for the joined payload
C39_Witness ==
    /\ pure.fn = "verify" /\ pure.out # NotApplied
    /\ pure.timestamp = Key(<<"1">>)
    /\ pure.payload.v # <<>>
    /\ pure.out.v = TRUE
    /\ verifySignature(Joined(pure.timestamp, pure.payload), pure.signature,
                       pure.secret, NoKey).v = TRUE

\* C38: an object that parse rejects with ValidationError has, after the
\* call, the fields it had before the call.
C38_RejectedObjectIsUnchanged ==
    ( /\ pure.fn = "parse" /\ pure.out # NotApplied
      /\ pure.payload.form = "object" /\ pure.payload.top = "object"
      /\ pure.out.t = "throw" ) =>
        pure.payload.value = pure.event

\* C35: a GET issued, with whatever options, while a GET of its method and
\* URL is outstanding on the engine makes no network attempt and is at every
\* moment settled as that call is: pending while it is pending, and then with
\* its result, a rejection for its timeout or abort included.
C35_FingerprintIsMethodAndUrl ==
    \A j \in 1..Len(calls) :
        LET i == calls[j].twin
        IN  (i # 0 /\ calls[j].method = "GET") =>
              /\ calls[j].netAttempts = 0 /\ calls[j].transportFails = 0
              /\ Outcome(j) = Outcome(i)

\* the error of an answer that is retried though it is the server's verdict:
\* a JSON body with a 5xx status, or with a 2xx status and an envelope without
\* success or data
RetryableAnswer(resp) ==
    /\ resp.json /\ resp.parses
    /\ \/ resp.status >= 500 /\ resp.status <= 599
       \/ resp.status >= 200 /\ resp.status <= 299 /\ ~resp.envOk

\* C36: an attempt answered with a JSON 5xx, or with a 2xx JSON envelope
\* without success or data, is followed by a backoff sleep and another attempt
\* while attempts are left (maxRetries + 1 in all), and by the rejection of the
\* call with the ApiError of that answer when none is left.
C36_ServerErrorsAreRetried ==
    [][\A i \in 1..Len(calls) :
          \A resp \in {r \in Answers(now) : /\ r.status = calls'[i].answered.status
                                           /\ RetryableAnswer(r)},
             j \in JitterDraws(calls[i].attempt) :
             (profile = "loop" /\ Respond(i, resp, j)) =>
                IF calls[i].netAttempts < maxRetriesOf(calls[i]) + 1
                THEN /\ calls'[i].pc = "sleeping"
                     /\ calls'[i].outcome = Pending
                     /\ calls'[i].wakeAt - now >= baseDelay(calls[i].attempt)
                     /\ calls'[i].lastError = ApiError("server", resp.status)
                ELSE /\ calls'[i].netAttempts = maxRetriesOf(calls[i]) + 1
                     /\ calls'[i].outcome = Rejected(ApiError("server", resp.status))
      ]_vars

\* a call whose three attempts were answered 500 was rejected with ApiError 500
C36_Witness ==
    /\ profile = "loop"
    /\ maxRetries = 2
    /\ \E i \in 1..Len(calls) :
          /\ calls[i].netAttempts = 3 /\ calls[i].sleeps = 2
          /\ calls[i].transportFails = 0
          /\ calls[i].outcome = Rejected(ApiError("server", 500))

\* C37: an entry leaves the registry only in the finally callback of the call
\* that put it there, after that call settled; an entry is never replaced; a
\* GET that started executeRequest keeps its entry until its own callback
\* runs; and a caller served from the registry holds the promise of the call
\* registered for its fingerprint at that moment.
C37_EntryRemovedByItsOwnSettlement ==
    [][/\ \A e \in Engines : \A key \in DOMAIN pendingRequests[e] :
             LET i == pendingRequests[e][key]
             IN  IF key \in DOMAIN pendingRequests'[e]
                 THEN pendingRequests'[e][key] = i
                 ELSE /\ calls[i].pc = "settled" /\ calls'[i].pc = "done"
                      /\ calls[i].outcome.st # "pending"
                      /\ calls[i].eng = e /\ KeyOf(i) = key
       /\ \A i \in 1..Len(calls) :
             (/\ calls[i].method = "GET" /\ calls[i].route = "own"
              /\ calls'[i].pc # "done") =>
                /\ KeyOf(i) \in DOMAIN pendingRequests'[calls[i].eng]
                /\ pendingRequests'[calls[i].eng][KeyOf(i)] = i
       /\ Len(calls') > Len(calls) =>
             LET j == Len(calls')
                 e == calls'[j].eng
                 key == requestKey(calls'[j].method, buildUrl(e, calls'[j].path))
             IN  calls'[j].route = "dedup" =>
                    /\ key \in DOMAIN pendingRequests[e]
                    /\ calls'[j].share = pendingRequests[e][key]
                    /\ pendingRequests'[e][key] = calls'[j].share
      ]_vars

\* a second GET was served the promise registered by the first, which was
\* rejected; the entry is gone now that the callback of the first has run
C37_Witness ==
    /\ Len(calls) = 2
    /\ calls[1].method = "GET" /\ calls[1].route = "own" /\ calls[1].pc = "done"
    /\ calls[1].outcome.st = "rejected"
    /\ calls[2].route = "dedup" /\ calls[2].share = 1
    /\ KeyOf(1) = KeyOf(2)
    /\ KeyOf(1) \notin DOMAIN pendingRequests[FirstEngine]
====
